---- MODULE Spec2Model ----
(***************************************************************************)
(* A model of the PyIso object of src/src/pyiso/pyiso.py: the volume       *)
(* descriptors, the two directory hierarchies (primary and Joliet), the    *)
(* path tables, the El Torito catalog, the isohybrid MBR, the extent       *)
(* allocator (_reshuffle_extents), the mutation API and the writer/parser  *)
(* on an abstract image (a map from extents to structured blocks).         *)
(*                                                                         *)
(* Directory records are objects of an arena (recs); a record that left    *)
(* its parent's child list stays in the arena because other objects (the   *)
(* boot catalog, a path table record) may still refer to it.               *)
(***************************************************************************)
EXTENDS Integers, Sequences, FiniteSets, TLC

(* ------------------------------ bounds -------------------------------- *)
\* number of directory record objects one PyIso object may hold (Spec)
MaxRecs == 5
\* the same for the callers that work on both hierarchies (SpecJoliet)
MaxJolietRecs == 6
\* the same for the callers that build one deep chain (SpecDeep)
MaxDeepRecs == 12
\* the longest path, in components, the callers of SpecDeep pass
MaxDeepPath == 9
\* how far the callers let space_size run away from the end of the layout
MaxDrift == 2
\* the last clock reading at which a caller calls write()
MaxDate == 1

(* ------------------------- program constants -------------------------- *)
BlockSize == 2048
PvdExtent == 16
InitialSpaceSize == 24
RootPtrSize == 10
PathTableGroup == 4096
MaxComponents == 7
BootCatalogLength == 64
CylinderSize == 64 * 32 * 512
IsohybridPrefixSize == 432
IsohybridSectorCount == 4
ElToritoExtent == 17

(* --------------------------- small helpers ---------------------------- *)
\* the value of F at x: names an intermediate result that is used more
\* than once
Let(x, F(_)) == F(x)

CeilDiv(a, b) == (a + b - 1) \div b

RECURSIVE SumSeq(_)
SumSeq(s) == IF s = <<>> THEN 0 ELSE Head(s) + SumSeq(Tail(s))

\* pad(data_size, pad_size): the number of zero bytes that take data_size to
\* the next multiple of pad_size
pad(data_size, pad_size) ==
    LET padbytes == pad_size - (data_size % pad_size)
    IN  IF padbytes # pad_size THEN padbytes ELSE 0

(* ------------------------------- names -------------------------------- *)
\* "?" stands for a name with a character outside the d1 set, "" for the
\* empty last component of the path "/".
BadName == "?"
RrMoved == "RR_MOVED"
BootCatName == "BOOT"
JolietBootCatName == "c"
NoneArg == <<"None">>
RootPath == <<"">>
\* the identifier of a root record and of the root path table record
RootIdent == "NUL"

\* str.encode(encoding) on the names of the model: 'ascii' leaves an ASCII
\* name as it is, 'utf-16_be' puts a zero byte in front of every character
\* (the Joliet names of the model have one character).
Encode(s, encoding) ==
    IF encoding = "utf-16_be" /\ s # "" THEN "0" \o s ELSE s

\* the sort key of an identifier within a child list or a path table
NameOrder ==
    <<"NUL", "", "0a", "0b", "0c", "?", "A", "B", "BOOT", "C", "D", "E", "F", "G",
      "H", "I", "J", "K", "L", "RR_MOVED", "a", "b">>

RankOf == [s \in {NameOrder[i] : i \in DOMAIN NameOrder} |->
              CHOOSE i \in DOMAIN NameOrder : NameOrder[i] = s]

Rank(s) == IF s \in DOMAIN RankOf THEN RankOf[s] ELSE Len(NameOrder) + 1

\* check_d1_characters(name.upper())
check_d1_characters(name) == name # BadName

\* check_iso9660_directory(fullname, interchange_level)
check_iso9660_directory(fullname, level) ==
    /\ Len(fullname) >= 1
    /\ IF level = 1 THEN Len(fullname) <= 8 ELSE Len(fullname) <= 207
    /\ check_d1_characters(fullname)

\* check_iso9660_filename(fullname, interchange_level) on names without
\* ';' and '.': the name part is the whole name, the extension is empty
check_iso9660_filename(fullname, level) ==
    /\ Len(fullname) >= 1
    /\ (level = 1 => Len(fullname) <= 8)
    /\ check_d1_characters(fullname)

\* PathTableRecord.record_length(len_di)
record_length(len_di) == 8 + len_di + (len_di % 2)

(* ------------------------------- state -------------------------------- *)
VARIABLES
    initialized,        \* PyIso.initialized
    interchange_level,  \* PyIso.interchange_level
    rock_ridge,         \* PyIso.rock_ridge
    recs,               \* arena of DirectoryRecord objects
    pvd,                \* the Primary Volume Descriptor
    svds,               \* PyIso.svds; the Joliet SVD is svds[joliet_vd]
    joliet_vd,          \* index of the Joliet SVD in svds, 0 for None
    brs,                \* PyIso.brs
    vdsts,              \* PyIso.vdsts (their extents)
    version_vd,         \* extent of the version descriptor
    er_extent,          \* extent of the root "." ER continuation entry
    eltorito,           \* PyIso.eltorito_boot_catalog
    isohybrid_mbr,      \* PyIso.isohybrid_mbr
    end_extent,         \* current_extent at the end of the last reshuffle
    cdfp,               \* whether the object holds the file it was opened from
    outfp,              \* the image the last write() produced
    progress,           \* what progress_cb received during the last call
    history,            \* how the object got initialized: "none", "new", "open"
    op,                 \* the last API call
    path_arg,           \* the iso_path it was given, NoneArg if it takes none
    call_args,          \* the extension arguments it was given
    probe,              \* a function applied on its own: its name, its
                        \* argument and what it gave
    result              \* its outcome

graphvars == <<initialized, interchange_level, rock_ridge, recs, pvd, svds,
               joliet_vd, brs, vdsts, version_vd, er_extent, eltorito,
               isohybrid_mbr, end_extent, cdfp>>

vars == <<initialized, interchange_level, rock_ridge, recs, pvd, svds,
          joliet_vd, brs, vdsts, version_vd, er_extent, eltorito,
          isohybrid_mbr, end_extent, cdfp, outfp, progress,
          history, op, path_arg, call_args, probe, result>>

(* ------------------------ values of the state ------------------------- *)
NoVD == [present |-> FALSE, ext |-> 0, space_size |-> 0, path_tbl_size |-> 0,
         path_table_num_extents |-> 0, path_table_location_le |-> 0,
         path_table_location_be |-> 0, ptrs |-> <<>>, root |-> 0,
         creation_date |-> 0]

NoCatalog == [active |-> FALSE, br |-> 0, dirrecord |-> 0, initial_entry_dirrecord |-> 0,
              load_rba |-> 0, sector_count |-> 0]

NoMbr == [present |-> FALSE, magic |-> FALSE, rba |-> 0]

NoImage == [present |-> FALSE]

\* the graph of one PyIso object, passed through the helpers as one value
Cur == [initialized |-> initialized, interchange_level |-> interchange_level,
        rock_ridge |-> rock_ridge, recs |-> recs, pvd |-> pvd, svds |-> svds,
        joliet_vd |-> joliet_vd, brs |-> brs, vdsts |-> vdsts,
        version_vd |-> version_vd, er_extent |-> er_extent,
        eltorito |-> eltorito, isohybrid_mbr |-> isohybrid_mbr,
        end_extent |-> end_extent, cdfp |-> cdfp]

\* PyIso._initialize
Initialized0 == [initialized |-> FALSE, interchange_level |-> 0,
                 rock_ridge |-> FALSE, recs |-> <<>>, pvd |-> NoVD,
                 svds |-> <<>>, joliet_vd |-> 0, brs |-> <<>>, vdsts |-> <<>>,
                 version_vd |-> 0, er_extent |-> 0, eltorito |-> NoCatalog,
                 isohybrid_mbr |-> NoMbr, end_extent |-> 0, cdfp |-> NoImage]

Become(G) ==
    /\ initialized' = G.initialized
    /\ interchange_level' = G.interchange_level
    /\ rock_ridge' = G.rock_ridge
    /\ recs' = G.recs
    /\ pvd' = G.pvd
    /\ svds' = G.svds
    /\ joliet_vd' = G.joliet_vd
    /\ brs' = G.brs
    /\ vdsts' = G.vdsts
    /\ version_vd' = G.version_vd
    /\ er_extent' = G.er_extent
    /\ eltorito' = G.eltorito
    /\ isohybrid_mbr' = G.isohybrid_mbr
    /\ end_extent' = G.end_extent
    /\ cdfp' = G.cdfp


(* -------------------------- directory records ------------------------- *)
\* what open_data of a file record yields: the bytes of a plain file, or
\* the boot catalog as add_eltorito serialized it
DataContent == [k |-> "data", load_rba |-> 0, sector_count |-> 0]

CatalogContent(load_rba, sector_count) ==
    [k |-> "cat", load_rba |-> load_rba, sector_count |-> sector_count]

\* DirectoryRecord.new_dir / new_fp / new_symlink / new_root: a record that
\* is not yet in any child list and has no extent (ext = 0 stands for None)
NewRec(vd, ident, parent, isdir, length, fp, rr_name, rr_kind) ==
    [vd |-> vd, ident |-> ident, parent |-> parent, isdir |-> isdir,
     data_length |-> length, ext |-> 0, att |-> FALSE, dots |-> 0,
     fp |-> fp, rr_name |-> rr_name, rr_kind |-> rr_kind, link |-> 0,
     link_ext |-> 0, content |-> DataContent]

\* DirectoryRecord.__lt__: the order of a child list
DrLess(R, x, y) ==
    Let(Rank(R[x].ident) - Rank(R[y].ident),
        LAMBDA d : d < 0 \/ (d = 0 /\ x < y))

RECURSIVE SortIds(_, _)
SortIds(R, S) ==
    IF S = {} THEN <<>>
    ELSE LET m == CHOOSE x \in S : \A y \in S : x = y \/ DrLess(R, x, y)
         IN  <<m>> \o SortIds(R, S \ {m})

\* DirectoryRecord.children without the "." and ".." sentinels
Kids(R, d) == SortIds(R, {i \in DOMAIN R : R[i].att /\ R[i].parent = d})

SelectDirs(R, s) == SelectSeq(s, LAMBDA i : R[i].isdir)

SelectFiles(R, s) == SelectSeq(s, LAMBDA i : ~R[i].isdir)

\* the directories below (and including) root in the order in which a
\* collections.deque walk pops them
RECURSIVE BfsWalk(_, _, _)
BfsWalk(R, queue, acc) ==
    IF queue = <<>> THEN acc
    ELSE BfsWalk(R, Tail(queue) \o SelectDirs(R, Kids(R, Head(queue))),
                 Append(acc, Head(queue)))

BfsDirs(R, root) == IF root = 0 THEN <<>> ELSE BfsWalk(R, <<root>>, <<>>)

RECURSIVE FlatFiles(_, _)
FlatFiles(R, dirs) ==
    IF dirs = <<>> THEN <<>>
    ELSE SelectFiles(R, Kids(R, Head(dirs))) \o FlatFiles(R, Tail(dirs))

\* the files below root in the order of the same walk
BfsFiles(R, root) == FlatFiles(R, BfsDirs(R, root))

Range(seq) == {seq[k] : k \in DOMAIN seq}

RECURSIVE Flatten(_)
Flatten(ss) == IF ss = <<>> THEN <<>> ELSE Head(ss) \o Flatten(Tail(ss))

\* the records below (and including) the records of queue: directories
\* and files, breadth first
RECURSIVE TreeOrder(_, _, _)
TreeOrder(R, queue, acc) ==
    IF queue = <<>> THEN acc
    ELSE LET d == Head(queue)
         IN  TreeOrder(R, Tail(queue) \o (IF R[d].isdir THEN Kids(R, d) ELSE <<>>),
                       Append(acc, d))

\* the records of the hierarchies in their order
TreeOf(G) ==
    (IF G.pvd.root = 0 THEN <<>> ELSE TreeOrder(G.recs, <<G.pvd.root>>, <<>>))
    \o Flatten([i \in DOMAIN G.svds |-> TreeOrder(G.recs, <<G.svds[i].root>>, <<>>)])

Blocks(length) == CeilDiv(length, BlockSize)

\* new_extent_loc of the records of seq, one after the other from cur
RECURSIVE AssignExtents(_, _, _)
AssignExtents(R, seq, cur) ==
    IF seq = <<>> THEN [recs |-> R, cur |-> cur]
    ELSE AssignExtents([R EXCEPT ![Head(seq)].ext = cur], Tail(seq),
                       cur + Blocks(R[Head(seq)].data_length))

\* HeaderVolumeDescriptor.update_ptr_extent_locations
update_ptr_extent_locations(R, vd) ==
    [vd EXCEPT !.ptrs = [i \in DOMAIN vd.ptrs |->
                            IF vd.ptrs[i].dr = 0 THEN vd.ptrs[i]
                            ELSE [vd.ptrs[i] EXCEPT !.ext = R[vd.ptrs[i].dr].ext]]]

\* RockRidge.update_child_link / update_parent_link on the records the walk
\* queued: a record that holds a link takes the extent of the linked record
UpdateLinks(R, dirs) ==
    [i \in DOMAIN R |->
        IF R[i].link # 0 /\ (\E k \in DOMAIN dirs : dirs[k] = i)
        THEN [R[i] EXCEPT !.link_ext = R[R[i].link].ext]
        ELSE R[i]]

(* --------------------------- extent allocator -------------------------- *)
\* PyIso._reassign_vd_dirrecord_extents: the directories of vd take extents
\* in walk order, then the path table records copy them
ReassignDirs(R, vd, cur) ==
    Let(BfsDirs(R, vd.root),
        LAMBDA dirs :
            Let(AssignExtents(R, dirs, cur),
                LAMBDA a : [recs |-> UpdateLinks(a.recs, dirs),
                            vd |-> update_ptr_extent_locations(a.recs, vd),
                            cur |-> a.cur]))

\* the path table locations of the i-th SVD onwards
RECURSIVE SvdTables(_, _, _)
SvdTables(S, i, cur) ==
    IF i > Len(S) THEN [svds |-> S, cur |-> cur]
    ELSE SvdTables([S EXCEPT ![i].path_table_location_le = cur,
                             ![i].path_table_location_be =
                                 cur + S[i].path_table_num_extents],
                   i + 1, cur + 2 * S[i].path_table_num_extents)

\* the directory extents of the i-th SVD onwards
RECURSIVE SvdDirs(_, _, _, _)
SvdDirs(R, S, i, cur) ==
    IF i > Len(S) THEN [recs |-> R, svds |-> S, cur |-> cur]
    ELSE Let(ReassignDirs(R, S[i], cur),
             LAMBDA a : SvdDirs(a.recs, [S EXCEPT ![i] = a.vd], i + 1, a.cur))

\* PyIso._reshuffle_extents up to and including the patch of the El Torito
\* boot record: the descriptors, the path tables, the directories of the
\* PVD and of every SVD, the Rock Ridge ER extent
ReshuffleHead(G) ==
    LET e0 == G.pvd.ext + 1
        e1 == G.pvd.ext + 1 + Len(G.brs)
        e2 == G.pvd.ext + 1 + Len(G.brs) + Len(G.svds)
        e3 == G.pvd.ext + 1 + Len(G.brs) + Len(G.svds) + Len(G.vdsts)
        brs1 == [i \in DOMAIN G.brs |-> [G.brs[i] EXCEPT !.ext = e0 + i - 1]]
        svds1 == [i \in DOMAIN G.svds |-> [G.svds[i] EXCEPT !.ext = e1 + i - 1]]
        vdsts1 == [i \in DOMAIN G.vdsts |-> e2 + i - 1]
        pvd1 == [G.pvd EXCEPT !.path_table_location_le = e3 + 1,
                              !.path_table_location_be =
                                  e3 + 1 + G.pvd.path_table_num_extents]
        cat == G.eltorito
    IN  Let(SvdTables(svds1, 1, e3 + 1 + 2 * G.pvd.path_table_num_extents),
        LAMBDA t :
        Let(ReassignDirs(G.recs, pvd1, t.cur),
        LAMBDA p :
        Let(SvdDirs(p.recs, t.svds, 1, p.cur),
        LAMBDA s :
        Let(IF G.rock_ridge THEN s.cur + 1 ELSE s.cur,
        LAMBDA e6 :
            [G EXCEPT !.brs = IF cat.active
                              THEN [brs1 EXCEPT ![cat.br].boot_system_use = e6]
                              ELSE brs1,
                      !.svds = s.svds, !.vdsts = vdsts1,
                      !.version_vd = e3, !.pvd = p.vd, !.recs = s.recs,
                      !.er_extent = IF G.rock_ridge THEN s.cur ELSE @,
                      !.end_extent = e6]))))

\* the El Torito step of PyIso._reshuffle_extents when the catalog has a
\* directory record: the catalog takes one extent
ReshuffleCatalog(G) ==
    [G EXCEPT !.recs[G.eltorito.dirrecord].ext = G.end_extent,
              !.end_extent = @ + 1]

\* the rest of PyIso._reshuffle_extents: the boot file takes one extent and
\* the catalog's initial entry its location, then every other file of the
\* primary tree takes its extents in walk order
ReshuffleTail(G) ==
    LET cat == G.eltorito
        e7 == G.end_extent
        plain == SelectSeq(BfsFiles(G.recs, G.pvd.root),
                           LAMBDA i : ~(cat.active /\
                                        (i = cat.dirrecord \/
                                         i = cat.initial_entry_dirrecord)))
    IN  Let(AssignExtents(IF cat.active
                          THEN [G.recs EXCEPT ![cat.initial_entry_dirrecord].ext = e7]
                          ELSE G.recs,
                          plain,
                          IF cat.active THEN e7 + 1 ELSE e7),
            LAMBDA f :
                [G EXCEPT !.recs = f.recs,
                          !.eltorito = IF cat.active THEN [cat EXCEPT !.load_rba = e7]
                                       ELSE cat,
                          !.end_extent = f.cur])

\* a boot catalog that lacks its directory record, or the directory record
\* of its boot file, makes the allocator stop with an AttributeError
ReshuffleCrashes(G) ==
    /\ G.eltorito.active
    /\ G.eltorito.dirrecord = 0 \/ G.eltorito.initial_entry_dirrecord = 0

\* PyIso._reshuffle_extents
ReshuffleExtents(G) ==
    Let(ReshuffleHead(G),
        LAMBDA h :
            IF ~G.eltorito.active THEN ReshuffleTail(h)
            ELSE IF G.eltorito.dirrecord = 0 THEN h
            ELSE IF G.eltorito.initial_entry_dirrecord = 0 THEN ReshuffleCatalog(h)
            ELSE ReshuffleTail(ReshuffleCatalog(h)))

(* ------------------ volume descriptor bookkeeping --------------------- *)
\* a volume descriptor of the graph: 0 selects the PVD, i > 0 selects svds[i]
GetVD(G, sel) == IF sel = 0 THEN G.pvd ELSE G.svds[sel]

SetVD(G, sel, v) ==
    IF sel = 0 THEN [G EXCEPT !.pvd = v] ELSE [G EXCEPT !.svds[sel] = v]

\* HeaderVolumeDescriptor.add_to_space_size(addition_bytes)
add_to_space_size(vd, bytes) ==
    [vd EXCEPT !.space_size = @ + CeilDiv(bytes, BlockSize)]

\* HeaderVolumeDescriptor.remove_from_space_size(removal_bytes)
remove_from_space_size(vd, bytes) ==
    [vd EXCEPT !.space_size = @ - CeilDiv(bytes, BlockSize)]

\* HeaderVolumeDescriptor.add_entry(flen, ptr_size)
add_entry(vd, flen, ptr_size) ==
    LET size == vd.path_tbl_size + ptr_size
        grow == CeilDiv(size, PathTableGroup) * 2 > vd.path_table_num_extents
        v1 == [vd EXCEPT !.path_tbl_size = size]
        v2 == IF grow
              THEN [add_to_space_size(v1, 4 * BlockSize)
                        EXCEPT !.path_table_num_extents = @ + 2]
              ELSE v1
    IN  add_to_space_size(v2, flen)

\* HeaderVolumeDescriptor.find_ptr_index_matching_ident: the first path
\* table record that carries the identifier, 0 when there is none
find_ptr_index_matching_ident(vd, ident) ==
    IF \E i \in DOMAIN vd.ptrs : vd.ptrs[i].ident = ident
    THEN CHOOSE i \in DOMAIN vd.ptrs :
             /\ vd.ptrs[i].ident = ident
             /\ \A j \in DOMAIN vd.ptrs : vd.ptrs[j].ident = ident => i <= j
    ELSE 0

RemoveAt(seq, i) == SubSeq(seq, 1, i - 1) \o SubSeq(seq, i + 1, Len(seq))

\* HeaderVolumeDescriptor.remove_entry(flen, directory_ident): with an
\* identifier it drops the path table record found by that identifier
remove_entry(vd, flen, ident) ==
    IF ident = "" THEN remove_from_space_size(vd, flen)
    ELSE LET i == find_ptr_index_matching_ident(vd, ident)
             size == vd.path_tbl_size - record_length(Len(ident))
             shrink == CeilDiv(size, PathTableGroup) * 2 < vd.path_table_num_extents
             v1 == [vd EXCEPT !.path_tbl_size = size,
                              !.ptrs = RemoveAt(vd.ptrs, i)]
             v2 == IF shrink
                   THEN [remove_from_space_size(v1, 4 * BlockSize)
                             EXCEPT !.path_table_num_extents = @ - 2]
                   ELSE v1
         IN  remove_from_space_size(v2, flen)

\* PathTableRecord.__lt__: by parent directory number, then by identifier
PtrLess(p, q) ==
    \/ p.parent_num < q.parent_num
    \/ p.parent_num = q.parent_num /\ Rank(p.ident) - Rank(q.ident) < 0

\* HeaderVolumeDescriptor.add_path_table_record: bisect.insort_left
add_path_table_record(vd, ptr) ==
    Let(Len(SelectSeq(vd.ptrs, LAMBDA q : PtrLess(q, ptr))),
        LAMBDA n : [vd EXCEPT !.ptrs = SubSeq(@, 1, n) \o <<ptr>>
                                       \o SubSeq(@, n + 1, Len(@))])

\* PathTableRecord.new_root / new_dir
NewPtr(ident, dr, parent_num) ==
    [ident |-> ident, dr |-> dr, ext |-> 0, parent_num |-> parent_num]

\* HeaderVolumeDescriptor.find_parent_dirnum: the number (position) of the
\* path table record of the parent directory, 0 when there is none
find_parent_dirnum(vd, parent) ==
    IF \E i \in DOMAIN vd.ptrs : vd.ptrs[i].dr = parent
    THEN CHOOSE i \in DOMAIN vd.ptrs :
             /\ vd.ptrs[i].dr = parent
             /\ \A j \in DOMAIN vd.ptrs : vd.ptrs[j].dr = parent => i <= j
    ELSE 0

(* ------------------------ child lists of a record ---------------------- *)
\* DirectoryRecord.directory_record_length of a record without Rock Ridge
\* entries: 33 bytes, the identifier, and a pad byte to an even length
DrLen(R, i) == 33 + Len(R[i].ident) + (IF Len(R[i].ident) % 2 = 0 THEN 1 ELSE 0)

\* the length of "." and of ".."
DotLen == 34

\* DirectoryRecord.curr_length
curr_length(R, d) ==
    Let(Kids(R, d),
        LAMBDA kids :
            R[d].dots * DotLen + SumSeq([k \in DOMAIN kids |-> DrLen(R, kids[k])]))

\* can DirectoryRecord.add_child take the record: the parent is a directory
\* and has no child with that identifier
AddChildOK(G, parent, ident) ==
    /\ G.recs[parent].isdir
    /\ \A k \in DOMAIN G.recs :
           G.recs[k].att /\ G.recs[k].parent = parent => G.recs[k].ident # ident

\* DirectoryRecord.add_child(child, vd, False) for a new record: the record
\* enters the arena and the child list; a parent that outgrows its data
\* length takes one more block, which the volume descriptor accounts for
add_child(G, sel, rec) ==
    Let([G EXCEPT !.recs = Append(@, [rec EXCEPT !.att = TRUE])],
        LAMBDA G1 :
            IF curr_length(G1.recs, rec.parent) > G1.recs[rec.parent].data_length
            THEN [G1 EXCEPT !.recs[rec.parent].data_length = @ + BlockSize,
                            !.pvd = IF sel = 0 THEN add_to_space_size(@, BlockSize)
                                    ELSE @,
                            !.svds = IF sel = 0 THEN @
                                     ELSE [@ EXCEPT ![sel] =
                                              add_to_space_size(@, BlockSize)]]
            ELSE G1)

\* add_child of the "." and ".." records of directory d
add_dots(G, d) == [G EXCEPT !.recs[d].dots = 2]

\* DirectoryRecord.remove_child(child, index, vd): the entry at position
\* index of the child list leaves the list (position 0 is the first entry)
remove_child(G, parent, index) ==
    IF index < G.recs[parent].dots THEN [G EXCEPT !.recs[parent].dots = @ - 1]
    ELSE [G EXCEPT !.recs[Kids(G.recs, parent)
                              [index - G.recs[parent].dots + 1]].att = FALSE]

\* is index a position of the child list of parent
IndexInRange(G, parent, index) ==
    index < G.recs[parent].dots + Len(Kids(G.recs, parent))

(* ------------------------------- lookups ------------------------------- *)
NotFound == [rec |-> 0, index |-> 0]

\* the relocated entries PyIso._find_record collects on a Rock Ridge PVD
RelocEntries(G, sel) ==
    IF sel = 0 /\ G.rock_ridge
    THEN Let(BfsDirs(G.recs, G.pvd.root),
             LAMBDA dirs :
                 {i \in DOMAIN G.recs :
                     /\ G.recs[i].rr_kind = "RE"
                     /\ \E k \in DOMAIN dirs : dirs[k] = G.recs[i].parent
                     /\ G.recs[i].att})
    ELSE {}

\* the scan of one child list by PyIso._find_record: component k of path is
\* looked for from position i of the children of dir
\* a relocated entry whose extent a CL link of record c names, 0 for none
DeepOf(R, reloc, c) ==
    IF \E e \in reloc : R[e].ext = R[c].link_ext
    THEN CHOOSE e \in reloc :
             /\ R[e].ext = R[c].link_ext
             /\ \A o \in reloc : R[o].ext = R[c].link_ext => e <= o
    ELSE 0

\* what child c of a scanned list yields for the name: 0 for no match, else
\* the record the search goes on with
MatchOf(R, reloc, c, name) ==
    IF R[c].ident = name THEN c
    ELSE IF R[c].rr_kind \in {"", "RE"} \/ R[c].rr_name # name THEN 0
    ELSE IF R[c].rr_kind = "CL" THEN DeepOf(R, reloc, c)
    ELSE c

RECURSIVE FindScan(_, _, _, _, _, _)
FindScan(R, reloc, dir, path, k, i) ==
    Let(Kids(R, dir),
        LAMBDA kids :
            IF i > Len(kids) THEN NotFound
            ELSE Let(MatchOf(R, reloc, kids[i], path[k]),
                     LAMBDA tgt :
                         IF tgt # 0 /\ k = Len(path)
                         THEN [rec |-> tgt, index |-> R[dir].dots + i - 1]
                         ELSE IF tgt # 0 /\ R[tgt].isdir
                         THEN FindScan(R, reloc, tgt, path, k + 1, 1)
                         ELSE FindScan(R, reloc, dir, path, k, i + 1)))

\* PyIso._find_record(vd, path, encoding)
find_record(G, sel, path, encoding) ==
    IF path = RootPath THEN [rec |-> GetVD(G, sel).root, index |-> 0]
    ELSE FindScan(G.recs, RelocEntries(G, sel), GetVD(G, sel).root,
                  [k \in DOMAIN path |-> Encode(path[k], encoding)], 1, 1)

\* PyIso._split_path
split_path(iso_path) == iso_path

\* a depth check that lets one more component through
check_path_depth_lax(iso_path) == ~(Len(split_path(iso_path)) > MaxComponents + 1)

\* PyIso._check_path_depth
check_path_depth(iso_path) == ~(Len(split_path(iso_path)) > MaxComponents)

Front(path) == SubSeq(path, 1, Len(path) - 1)

Last(path) == path[Len(path)]

\* PyIso._name_and_parent_from_path: the parent is looked up with the
\* default encoding ('ascii'); parent 0 stands for the raised error
name_and_parent_from_path(G, sel, path) ==
    [name |-> Last(path),
     parent |-> IF Len(path) = 1 THEN GetVD(G, sel).root
                ELSE find_record(G, sel, Front(path), "ascii").rec]

(* ---------------------------- the API calls --------------------------- *)
\* the outcome of a call: what it raised ("ok" for a normal return) and the
\* graph it left behind
Ok(G) == [res |-> "ok", G |-> G]

Raise(G) == [res |-> "PyIsoException", G |-> G]

Crash(G) == [res |-> "Exception", G |-> G]

\* the return of a call whose last step was the allocator
Finish(G) == IF ReshuffleCrashes(G) THEN Crash(G) ELSE Ok(G)

\* the argument check without its Joliet half
ExtensionArgsRockRidgeOnly(G, rr_path, joliet_path) ==
    G.rock_ridge <=> rr_path # NoneArg

\* the Rock Ridge / Joliet argument checks shared by add_fp and
\* add_directory
ExtensionArgsOK(G, rr_path, joliet_path) ==
    /\ G.rock_ridge <=> rr_path # NoneArg
    /\ G.joliet_vd # 0 <=> joliet_path # NoneArg

\* the Joliet half of add_fp: the record of the Joliet tree is made after
\* the primary tree was changed; it copies the extent of the primary record
AddFpJoliet(G, length, fp, joliet_path) ==
    Let(name_and_parent_from_path(G, G.joliet_vd, joliet_path),
        LAMBDA jnp :
            IF jnp.parent = 0 THEN Raise(G)
            ELSE IF ~AddChildOK(G, jnp.parent, Encode(jnp.name, "utf-16_be"))
            THEN Raise(G)
            ELSE Let(ReshuffleExtents(
                         [add_child(G, G.joliet_vd,
                                    NewRec("svd", Encode(jnp.name, "utf-16_be"),
                                           jnp.parent, FALSE, length, fp, "", ""))
                             EXCEPT !.svds[G.joliet_vd] = add_entry(@, length, 0)]),
                     LAMBDA G3 :
                         IF ReshuffleCrashes(G3) THEN Crash(G3)
                         ELSE Ok([G3 EXCEPT !.recs[Len(G.recs) + 1].ext =
                                                G3.recs[fp].ext])))

\* the part of add_fp that follows the checks: the record enters the
\* primary tree, then the Joliet half or the allocator runs
AddFpRecord(G, length, rec, joliet_path) ==
    Let([add_child(G, 0, rec) EXCEPT !.pvd = add_entry(@, length, 0)],
        LAMBDA G2 :
            IF G.joliet_vd = 0 THEN Finish(ReshuffleExtents(G2))
            ELSE AddFpJoliet(G2, length, Len(G.recs) + 1, joliet_path))

\* PyIso.add_fp(fp, length, iso_path, rr_path, joliet_path)
AddFp(G, length, iso_path, rr_path, joliet_path) ==
    IF ~G.initialized THEN Raise(G)
    ELSE IF ~ExtensionArgsOK(G, rr_path, joliet_path) THEN Raise(G)
    ELSE IF ~check_path_depth(iso_path) THEN Raise(G)
    ELSE Let(name_and_parent_from_path(G, 0, iso_path),
             LAMBDA np :
                 IF np.parent = 0 THEN Raise(G)
                 ELSE IF ~check_iso9660_filename(np.name, G.interchange_level)
                 THEN Raise(G)
                 ELSE IF ~AddChildOK(G, np.parent, np.name) THEN Raise(G)
                 ELSE AddFpRecord(G, length,
                                  NewRec("pvd", np.name, np.parent, FALSE, length,
                                         Len(G.recs) + 1,
                                         IF G.rock_ridge THEN Last(rr_path) ELSE "",
                                         IF G.rock_ridge THEN "NM" ELSE ""),
                                  joliet_path))

\* the path table record of a new directory enters the table of vd
AddDirPtr(vd, ident, id, parent) ==
    add_path_table_record(vd, NewPtr(ident, id, find_parent_dirnum(vd, parent)))

\* a new directory record with its "." and ".." in the child list of its
\* parent, its path table record and its block in the space size
AddDirRecord(G, sel, ident, parent, rr_name, rr_kind) ==
    Let(add_dots(add_child(G, sel,
                           NewRec(IF sel = 0 THEN "pvd" ELSE "svd", ident, parent,
                                  TRUE, BlockSize, 0, rr_name, rr_kind)),
                 Len(G.recs) + 1),
        LAMBDA G1 :
            SetVD(G1, sel,
                  AddDirPtr(add_entry(GetVD(G1, sel), BlockSize,
                                      record_length(Len(ident))),
                            ident, Len(G.recs) + 1, parent)))

\* a relocation that makes a new /RR_MOVED every time
find_or_create_rr_moved_anew(G) ==
    [G |-> AddDirRecord(G, 0, RrMoved, G.pvd.root, "rr_moved", "NM"),
     rec |-> Len(G.recs) + 1]

\* PyIso._find_or_create_rr_moved: the graph and the /RR_MOVED record
find_or_create_rr_moved(G) ==
    Let(find_record(G, 0, <<RrMoved>>, "ascii").rec,
        LAMBDA found :
            IF found # 0 THEN [G |-> G, rec |-> found]
            ELSE [G |-> AddDirRecord(G, 0, RrMoved, G.pvd.root, "rr_moved", "NM"),
                  rec |-> Len(G.recs) + 1])

\* the Joliet half of add_directory
AddDirectoryJoliet(G, joliet_path) ==
    Let(name_and_parent_from_path(G, G.joliet_vd, joliet_path),
        LAMBDA jnp :
            IF jnp.parent = 0 THEN Raise(G)
            ELSE IF ~AddChildOK(G, jnp.parent, Encode(jnp.name, "utf-16_be"))
            THEN Raise(G)
            ELSE Finish(ReshuffleExtents(
                     [AddDirRecord(G, G.joliet_vd, Encode(jnp.name, "utf-16_be"),
                                   jnp.parent, "", "")
                         EXCEPT !.pvd = add_to_space_size(@, BlockSize),
                                !.svds[G.joliet_vd] =
                                    add_to_space_size(@, BlockSize)])))

\* the Rock Ridge links of a relocated directory: the placeholder (fake)
\* links to the real record id, the real record to its original parent
LinkRelocated(G, fake, id, orig_parent) ==
    IF fake # 0
    THEN [G EXCEPT !.recs[fake].link = id, !.recs[id].link = orig_parent]
    ELSE G

\* the part of add_directory that makes the real record under parent
AddDirectoryReal(G, name, parent, rr_name, fake, orig_parent, joliet_path) ==
    IF ~AddChildOK(G, parent, name) THEN Raise(G)
    ELSE Let(LinkRelocated(
                 AddDirRecord(G, 0, name, parent, rr_name,
                              IF fake # 0 THEN "RE"
                              ELSE IF G.rock_ridge THEN "NM" ELSE ""),
                 fake, Len(G.recs) + 1, orig_parent),
             LAMBDA G2 :
                 IF G.joliet_vd = 0 THEN Finish(ReshuffleExtents(G2))
                 ELSE AddDirectoryJoliet(G2, joliet_path))

\* the relocation branch of add_directory: /RR_MOVED is found or made, the
\* placeholder with the CL entry goes under the original parent and the
\* real record under /RR_MOVED
AddDirectoryRelocated(G, name, parent, rr_name, joliet_path) ==
    Let(find_or_create_rr_moved(G),
        LAMBDA m :
            IF ~AddChildOK(m.G, parent, name) THEN Raise(m.G)
            ELSE AddDirectoryReal(AddDirRecord(m.G, 0, name, parent, rr_name, "CL"),
                                  name, m.rec, rr_name, Len(m.G.recs) + 1, parent,
                                  joliet_path))

\* the part of add_directory that follows the lookup of the parent
AddDirectoryAt(G, name, parent, depth, rr_name, joliet_path) ==
    IF parent = 0 THEN Raise(G)
    ELSE IF ~check_iso9660_directory(name, G.interchange_level) THEN Raise(G)
    ELSE IF G.rock_ridge /\ depth % 8 = 0
    THEN AddDirectoryRelocated(G, name, parent, rr_name, joliet_path)
    ELSE AddDirectoryReal(G, name, parent, rr_name, 0, 0, joliet_path)

\* PyIso.add_directory(iso_path, rr_path, joliet_path)
AddDirectory(G, iso_path, rr_path, joliet_path) ==
    IF ~G.initialized THEN Raise(G)
    ELSE IF ~ExtensionArgsOK(G, rr_path, joliet_path) THEN Raise(G)
    ELSE IF ~G.rock_ridge /\ ~check_path_depth(iso_path) THEN Raise(G)
    ELSE Let(name_and_parent_from_path(G, 0, iso_path),
             LAMBDA np :
                 AddDirectoryAt(G, np.name, np.parent, Len(split_path(iso_path)),
                                IF G.rock_ridge THEN Last(rr_path) ELSE "",
                                joliet_path))

\* remove_entry on the Joliet descriptor, when there is one
RemoveJolietEntry(G, flen) ==
    IF G.joliet_vd # 0
    THEN [G EXCEPT !.svds[G.joliet_vd] = remove_entry(@, flen, "")]
    ELSE G

\* the part of rm_file that follows the lookup: f is what was found
RmFileFound(G, f, child) ==
    IF child.isdir THEN Raise(G)
    ELSE Finish(ReshuffleExtents(
             RemoveJolietEntry(
                 [remove_child(G, child.parent, f.index)
                     EXCEPT !.pvd = remove_entry(@, child.data_length, "")],
                 child.data_length)))

\* PyIso.rm_file(iso_path)
RmFile(G, iso_path) ==
    IF ~G.initialized THEN Raise(G)
    ELSE Let(find_record(G, 0, iso_path, "ascii"),
             LAMBDA f : IF f.rec = 0 THEN Raise(G)
                        ELSE RmFileFound(G, f, G.recs[f.rec]))

\* the part of the Joliet half of rm_directory that follows the lookup
RmDirectoryJolietFound(G, index, jchild) ==
    IF jchild.parent = 0 THEN Crash(G)
    ELSE IF ~IndexInRange(G, jchild.parent, index) THEN Crash(G)
    ELSE Let(remove_child(G, jchild.parent, index),
             LAMBDA G1 :
                 IF find_ptr_index_matching_ident(GetVD(G1, G.joliet_vd),
                                                  jchild.ident) = 0
                 THEN Raise(G1)
                 ELSE Finish(ReshuffleExtents(
                          [G1 EXCEPT !.svds[G.joliet_vd] =
                                         remove_from_space_size(
                                             remove_entry(@, jchild.data_length,
                                                          jchild.ident),
                                             BlockSize),
                                     !.pvd = remove_from_space_size(@, BlockSize)])))

\* the Joliet half of rm_directory: the Joliet record is looked up by its
\* own path, the entry that leaves the Joliet child list is the one at the
\* position the primary record had in its list
RmDirectoryJoliet(G, index, joliet_path) ==
    Let(find_record(G, G.joliet_vd, joliet_path, "utf-16_be"),
        LAMBDA f : IF f.rec = 0 THEN Raise(G)
                   ELSE RmDirectoryJolietFound(G, index, G.recs[f.rec]))

\* rm_directory without the check that the directory is empty
RmDirectoryFoundFull(G, f, child, joliet_path) ==
    IF ~child.isdir THEN Raise(G)
    ELSE Let(remove_child(G, child.parent, f.index),
             LAMBDA G1 :
                 IF find_ptr_index_matching_ident(G1.pvd, child.ident) = 0
                 THEN Raise(G1)
                 ELSE Let([G1 EXCEPT !.pvd = remove_entry(@, child.data_length,
                                                          child.ident)],
                          LAMBDA G2 :
                              IF G.joliet_vd = 0 THEN Finish(ReshuffleExtents(G2))
                              ELSE RmDirectoryJoliet(G2, f.index, joliet_path)))

\* the part of rm_directory that follows the lookup
RmDirectoryFound(G, f, child, joliet_path) ==
    IF ~child.isdir THEN Raise(G)
    ELSE IF Kids(G.recs, f.rec) # <<>> THEN Raise(G)
    ELSE Let(remove_child(G, child.parent, f.index),
             LAMBDA G1 :
                 IF find_ptr_index_matching_ident(G1.pvd, child.ident) = 0
                 THEN Raise(G1)
                 ELSE Let([G1 EXCEPT !.pvd = remove_entry(@, child.data_length,
                                                          child.ident)],
                          LAMBDA G2 :
                              IF G.joliet_vd = 0 THEN Finish(ReshuffleExtents(G2))
                              ELSE RmDirectoryJoliet(G2, f.index, joliet_path)))

\* PyIso.rm_directory(iso_path, joliet_path)
RmDirectory(G, iso_path, joliet_path) ==
    IF ~G.initialized THEN Raise(G)
    ELSE IF iso_path = RootPath THEN Raise(G)
    ELSE IF G.joliet_vd # 0 /\ joliet_path = NoneArg THEN Raise(G)
    ELSE Let(find_record(G, 0, iso_path, "ascii"),
             LAMBDA f : IF f.rec = 0 THEN Raise(G)
                        ELSE RmDirectoryFound(G, f, G.recs[f.rec], joliet_path))

\* the Joliet half of add_eltorito
AddEltoritoJoliet(G, bootcat, joliet_bootcatfile) ==
    Let(name_and_parent_from_path(G, G.joliet_vd, joliet_bootcatfile),
        LAMBDA jnp :
            IF jnp.parent = 0 THEN Raise(G)
            ELSE IF ~AddChildOK(G, jnp.parent, Encode(jnp.name, "utf-16_be"))
            THEN Raise(G)
            ELSE Let(ReshuffleExtents(
                         [add_child(G, G.joliet_vd,
                                    [NewRec("svd", Encode(jnp.name, "utf-16_be"),
                                            jnp.parent, FALSE, BootCatalogLength,
                                            bootcat, "", "")
                                        EXCEPT !.content = G.recs[bootcat].content])
                             EXCEPT !.svds[G.joliet_vd] =
                                        add_to_space_size(
                                            add_entry(@, BootCatalogLength, 0),
                                            BlockSize),
                                    !.pvd = add_to_space_size(@, BlockSize)]),
                     LAMBDA G3 :
                         IF ReshuffleCrashes(G3) THEN Crash(G3)
                         ELSE Ok([G3 EXCEPT !.recs[Len(G.recs) + 1].ext =
                                                G3.recs[bootcat].ext])))

\* the sector count of the initial entry: boot_load_size, or the length of
\* the boot file in 512-byte sectors
SectorCount(length, boot_load_size) ==
    IF boot_load_size = 0
    THEN (CeilDiv(length, BlockSize) * BlockSize) \div 512
    ELSE boot_load_size

\* the part of add_eltorito that makes the catalog file: G1 has the boot
\* record and the catalog
AddEltoritoCatalog(G1, np, joliet_bootcatfile) ==
    IF np.parent = 0 THEN Raise(G1)
    ELSE IF ~check_iso9660_filename(np.name, G1.interchange_level) THEN Raise(G1)
    ELSE IF ~AddChildOK(G1, np.parent, np.name) THEN Raise(G1)
    ELSE Let([add_child(G1, 0,
                        [NewRec("pvd", np.name, np.parent, FALSE, BootCatalogLength,
                                Len(G1.recs) + 1,
                                IF G1.rock_ridge THEN "boot.cat" ELSE "",
                                IF G1.rock_ridge THEN "NM" ELSE "")
                            EXCEPT !.content =
                                       CatalogContent(0, G1.eltorito.sector_count)])
                 EXCEPT !.pvd = add_entry(@, BootCatalogLength, 0),
                        !.eltorito.dirrecord = Len(G1.recs) + 1],
             LAMBDA G3 :
                 IF G1.joliet_vd = 0
                 THEN Finish(ReshuffleExtents(
                          [G3 EXCEPT !.pvd = add_to_space_size(@, BlockSize)]))
                 ELSE AddEltoritoJoliet(G3, Len(G1.recs) + 1, joliet_bootcatfile))

\* the part of add_eltorito that follows the lookup of the boot file
AddEltoritoFound(G, bootfile, bootcatfile, joliet_bootcatfile, boot_load_size) ==
    Let([G EXCEPT !.brs = Append(@, [elt |-> TRUE, ext |-> 0, boot_system_use |-> 0]),
                  !.eltorito = [active |-> TRUE, br |-> Len(G.brs) + 1,
                                dirrecord |-> 0,
                                initial_entry_dirrecord |-> bootfile,
                                load_rba |-> 0,
                                sector_count |->
                                    SectorCount(G.recs[bootfile].data_length,
                                                boot_load_size)]],
        LAMBDA G1 :
            IF ~check_path_depth(bootcatfile) THEN Raise(G1)
            ELSE Let(name_and_parent_from_path(G1, 0, bootcatfile),
                     LAMBDA np : AddEltoritoCatalog(G1, np, joliet_bootcatfile)))

\* PyIso.add_eltorito(bootfile_path, bootcatfile, rr_bootcatfile,
\* joliet_bootcatfile, boot_load_size); boot_load_size 0 stands for None
AddEltorito(G, bootfile_path, bootcatfile, joliet_bootcatfile, boot_load_size) ==
    IF ~G.initialized THEN Raise(G)
    ELSE IF G.eltorito.active THEN Raise(G)
    ELSE Let(find_record(G, 0, bootfile_path, "ascii").rec,
             LAMBDA bootfile :
                 IF bootfile = 0 THEN Raise(G)
                 ELSE AddEltoritoFound(G, bootfile, bootcatfile,
                                       joliet_bootcatfile, boot_load_size))

\* the first file of the primary tree, in the order of rm_eltorito's walk,
\* whose extent is the one given; 0 when there is none
FileAtExtent(G, extent) ==
    Let(SelectSeq(BfsFiles(G.recs, G.pvd.root),
                  LAMBDA i : G.recs[i].ext = extent),
        LAMBDA hits : IF hits = <<>> THEN 0 ELSE Head(hits))

\* the position of an attached record in the child list of its parent
IndexOf(G, id) ==
    Let(Kids(G.recs, G.recs[id].parent),
        LAMBDA kids : G.recs[G.recs[id].parent].dots - 1
                      + (CHOOSE k \in DOMAIN kids : kids[k] = id))

\* the part of rm_eltorito that removes the catalog file target from G2
RmEltoritoFile(G2, target) ==
    IF target = 0 THEN Raise(G2)
    ELSE Finish(ReshuffleExtents(
             RemoveJolietEntry(
                 [remove_child(G2, G2.recs[target].parent, IndexOf(G2, target))
                     EXCEPT !.pvd = remove_entry(@, G2.recs[target].data_length, "")],
                 G2.recs[target].data_length)))

\* the part of rm_eltorito that follows the search of the boot record
RmEltoritoAt(G, eltorito_index) ==
    Let([G EXCEPT !.brs = RemoveAt(@, eltorito_index),
                  !.eltorito = NoCatalog,
                  !.pvd = remove_from_space_size(@, BlockSize),
                  !.svds = [i \in DOMAIN @ |->
                               IF i = G.joliet_vd
                               THEN remove_from_space_size(@[i], BlockSize)
                               ELSE @[i]]],
        LAMBDA G2 :
            RmEltoritoFile(G2, FileAtExtent(G2, G.brs[eltorito_index].boot_system_use)))

\* PyIso.rm_eltorito()
RmEltorito(G) ==
    IF ~G.initialized THEN Raise(G)
    ELSE IF ~G.eltorito.active THEN Raise(G)
    ELSE Let(SelectSeq([i \in DOMAIN G.brs |-> i], LAMBDA i : G.brs[i].elt),
             LAMBDA hits : IF hits = <<>> THEN Raise(G)
                           ELSE RmEltoritoAt(G, Head(hits)))

\* PyIso.add_symlink(symlink_path, rr_symlink_name, rr_path); relative tells
\* whether rr_path starts with something else than '/'
AddSymlink(G, symlink_path, rr_symlink_name, relative) ==
    IF ~G.initialized THEN Raise(G)
    ELSE IF ~G.rock_ridge THEN Raise(G)
    ELSE IF ~check_path_depth(symlink_path) THEN Raise(G)
    ELSE Let(name_and_parent_from_path(G, 0, symlink_path),
             LAMBDA np :
                 IF np.parent = 0 THEN Raise(G)
                 ELSE IF ~relative THEN Raise(G)
                 ELSE IF ~AddChildOK(G, np.parent, np.name) THEN Raise(G)
                 ELSE Finish(ReshuffleExtents(
                          add_child(G, 0,
                                    NewRec("pvd", np.name, np.parent, FALSE, 0,
                                           Len(G.recs) + 1, rr_symlink_name, "SL")))))

\* PyIso.add_isohybrid(isohybrid_fp, ...): size is the length of
\* isohybrid_fp, magic tells whether it starts with the bytes 33 ED,
\* signature whether the boot file carries FB C0 78 70 at offset 0x40
AddIsohybrid(G, size, magic, signature) ==
    IF ~G.initialized THEN Raise(G)
    ELSE IF size # IsohybridPrefixSize THEN Raise(G)
    ELSE IF ~G.eltorito.active THEN Raise(G)
    ELSE IF G.eltorito.sector_count # IsohybridSectorCount THEN Raise(G)
    ELSE IF G.eltorito.initial_entry_dirrecord = 0 THEN Crash(G)
    ELSE IF ~signature THEN Raise(G)
    ELSE Ok([G EXCEPT !.isohybrid_mbr = [present |-> TRUE, magic |-> magic,
                                         rba |-> G.eltorito.load_rba]])

\* PyIso.rm_isohybrid()
RmIsohybrid(G) ==
    IF ~G.initialized THEN Raise(G)
    ELSE Ok([G EXCEPT !.isohybrid_mbr = NoMbr])

\* PrimaryVolumeDescriptor.new / SupplementaryVolumeDescriptor.new with the
\* root record root and its path table record
NewVD(ext, root, additional) ==
    add_to_space_size(
        add_path_table_record(
            [present |-> TRUE, ext |-> ext, space_size |-> InitialSpaceSize,
             path_tbl_size |-> RootPtrSize,
             path_table_num_extents |-> CeilDiv(RootPtrSize, PathTableGroup) * 2,
             path_table_location_le |-> 19, path_table_location_be |-> 21,
             ptrs |-> <<>>, root |-> root, creation_date |-> 0],
            NewPtr(RootIdent, root, 1)),
        additional)

\* the space new() adds for Joliet: the SVD, its two path tables of two
\* extents each and its root directory
JolietAdditionalSize == BlockSize + 2 * BlockSize + 2 * BlockSize + BlockSize

\* DirectoryRecord.new_root with its "." and ".."
NewRoot(vdname) ==
    [NewRec(vdname, RootIdent, 0, TRUE, BlockSize, 0, "", "") EXCEPT !.dots = 2]

\* PyIso.new(interchange_level, ..., joliet, rock_ridge): the allocator
\* runs before initialized is set, so that a boot catalog left behind
\* without its directory records stops new() half way
New(G, level, joliet, rr) ==
    IF G.initialized THEN Raise(G)
    ELSE IF level < 1 \/ level > 3 THEN Raise(G)
    ELSE Let(ReshuffleExtents(
                [G EXCEPT !.interchange_level = level,
                          !.pvd = NewVD(PvdExtent, Len(G.recs) + 1,
                                        (IF joliet THEN JolietAdditionalSize ELSE 0)
                                        + (IF rr THEN BlockSize ELSE 0)),
                          !.svds = IF joliet
                                   THEN <<NewVD(0, Len(G.recs) + 2,
                                                JolietAdditionalSize
                                                + (IF rr THEN BlockSize ELSE 0))>>
                                   ELSE @,
                          !.joliet_vd = IF joliet THEN 1 ELSE 0,
                          !.vdsts = <<0>>, !.version_vd = 0,
                          !.recs = @ \o <<NewRoot("pvd")>>
                                   \o (IF joliet THEN <<NewRoot("svd")>> ELSE <<>>),
                          !.rock_ridge = rr]),
             LAMBDA G2 :
                 IF ReshuffleCrashes(G2) THEN Crash(G2)
                 ELSE Ok([G2 EXCEPT !.initialized = TRUE]))

\* a close() that raises as close() does but resets nothing
CloseKeeps(G) == IF ~G.initialized THEN Raise(G) ELSE Ok(G)

\* PyIso.close(): _initialize resets what it names; interchange_level,
\* joliet_vd and version_vd are attributes it does not touch
Close(G) ==
    IF ~G.initialized THEN Raise(G)
    ELSE Ok([Initialized0 EXCEPT !.interchange_level = G.interchange_level,
                                 !.joliet_vd = G.joliet_vd,
                                 !.version_vd = G.version_vd])

\* PyIso.get_entry(iso_path)
GetEntry(G, iso_path) ==
    IF ~G.initialized THEN Raise(G)
    ELSE IF find_record(G, 0, iso_path, "ascii").rec = 0 THEN Raise(G)
    ELSE Ok(G)

\* PyIso.list_dir(iso_path), iterated to its end
ListDir(G, iso_path) ==
    IF ~G.initialized THEN Raise(G)
    ELSE Let(find_record(G, 0, iso_path, "ascii").rec,
             LAMBDA f : IF f = 0 THEN Raise(G)
                        ELSE IF ~G.recs[f].isdir THEN Raise(G)
                        ELSE Ok(G))

\* a print_tree() that does not ask whether the object is initialized
PrintTreeUnguarded(G) == Ok(G)

\* PyIso.print_tree()
PrintTree(G) == IF ~G.initialized THEN Raise(G) ELSE Ok(G)

\* PyIso.get_and_write(iso_path, outfp): the Joliet tree is tried first
GetAndWrite(G, iso_path) ==
    IF ~G.initialized THEN Raise(G)
    ELSE IF G.joliet_vd # 0
            /\ find_record(G, G.joliet_vd, iso_path, "utf-16_be").rec # 0
    THEN Ok(G)
    ELSE Let(find_record(G, 0, iso_path, "ascii").rec,
             LAMBDA f : IF f = 0 THEN Raise(G)
                        ELSE IF G.recs[f].rr_kind = "SL" THEN Raise(G)
                        ELSE Ok(G))

(* ------------------------------ the image ------------------------------ *)
\* An image is a map from extents to blocks; a block is what the writer put
\* at that extent.  length is the length of the file in bytes.
Zero == [k |-> "zero"]

Eof == [k |-> "eof"]

\* the block at extent e of an image: a block that was written, zeros where
\* the file has bytes that no write touched, nothing past the end
Read(img, e) ==
    IF e \in DOMAIN img.blocks THEN img.blocks[e]
    ELSE IF e * BlockSize < img.length THEN Zero
    ELSE Eof

\* a record() that puts one block too many into the space size field
VdBlockOneMore(kind, vd, R, now) ==
    [k |-> kind, space_size |-> vd.space_size + 1,
     path_tbl_size |-> vd.path_tbl_size,
     path_table_location_le |-> vd.path_table_location_le,
     path_table_location_be |-> vd.path_table_location_be,
     root_ext |-> R[vd.root].ext, root_len |-> R[vd.root].data_length,
     date |-> now]

\* PrimaryVolumeDescriptor.record / SupplementaryVolumeDescriptor.record:
\* the fields of the descriptor, the root directory record and the dates,
\* which are those of the moment of the call
VdBlock(kind, vd, R, now) ==
    [k |-> kind, space_size |-> vd.space_size,
     path_tbl_size |-> vd.path_tbl_size,
     path_table_location_le |-> vd.path_table_location_le,
     path_table_location_be |-> vd.path_table_location_be,
     root_ext |-> R[vd.root].ext, root_len |-> R[vd.root].data_length,
     date |-> now]

\* BootRecord.record
BrBlock(br) ==
    [k |-> "br", elt |-> br.elt, boot_system_use |-> br.boot_system_use]

\* the records of a path table in one byte order
PtBlock(kind, vd) ==
    [k |-> kind,
     ptrs |-> [i \in DOMAIN vd.ptrs |->
                  [ident |-> vd.ptrs[i].ident, ext |-> vd.ptrs[i].ext,
                   parent_num |-> vd.ptrs[i].parent_num]]]

\* IsoHybrid.record
MbrBlock(mbr) == [k |-> "mbr", magic |-> mbr.magic, rba |-> mbr.rba]

\* DirectoryRecord.record of a child; dot is 1 for ".", 2 for "..", ce is
\* the extent of the continuation entry (0 for none)
Entry(r, ext, dot, ce) ==
    [ident |-> r.ident, isdir |-> r.isdir, ext |-> ext,
     data_length |-> r.data_length, rr_name |-> r.rr_name,
     rr_kind |-> r.rr_kind, link_ext |-> r.link_ext, dot |-> dot, ce |-> ce]

\* the "." or ".." record of directory d: dot is 1 or 2, ext the extent it
\* names
DotEntry(G, sel, d, dot, ext) ==
    Entry([G.recs[d] EXCEPT !.ident = IF dot = 1 THEN "." ELSE "..",
                            !.rr_name = "",
                            !.rr_kind = IF sel = 0 /\ G.rock_ridge THEN "NM" ELSE "",
                            !.link_ext = 0],
          ext, dot,
          IF dot = 1 /\ sel = 0 /\ G.rock_ridge /\ G.recs[d].parent = 0
          THEN G.er_extent ELSE 0)

\* the child records of directory d as the writer lays them into the
\* extent of d
DirEntries(G, sel, d) ==
    LET R == G.recs
    IN  SubSeq(<<DotEntry(G, sel, d, 1, R[d].ext),
                 DotEntry(G, sel, d, 2, IF R[d].parent = 0 THEN R[d].ext
                                        ELSE R[R[d].parent].ext)>>,
               1, R[d].dots)
        \o Let(Kids(R, d),
               LAMBDA kids :
                   [k \in DOMAIN kids |-> Entry(R[kids[k]], R[kids[k]].ext, 0, 0)])

\* the write of the records of directory d, if it has any
DirBlock(G, sel, d) ==
    Let(DirEntries(G, sel, d),
        LAMBDA entries :
            IF entries = <<>> THEN <<>>
            ELSE <<[e |-> G.recs[d].ext, c |-> [k |-> "dir", entries |-> entries]]>>)

Put(e, c) == [e |-> e, c |-> c]

\* copy_data and the pad of a file: its first block carries what open_data
\* yields, the blocks after it more of the same file
FileWrites(r) ==
    [b \in 1..Blocks(r.data_length) |->
        Put(r.ext + b - 1, IF b = 1 THEN r.content ELSE DataContent)]

\* the writes of the walk of one directory of the primary tree: its child
\* records, the ER block of the root, the payload of its files
PvdDirWrites(G, d) ==
    LET R == G.recs
        files == SelectFiles(R, Kids(R, d))
    IN  DirBlock(G, 0, d)
        \o (IF G.rock_ridge /\ R[d].parent = 0 /\ R[d].dots > 0
            THEN <<Put(G.er_extent, [k |-> "er"])>> ELSE <<>>)
        \o Flatten([k \in DOMAIN files |-> FileWrites(R[files[k]])])

\* the progress increments of the same walk
PvdDirIncs(G, d) ==
    LET R == G.recs
        files == SelectSeq(SelectFiles(R, Kids(R, d)),
                           LAMBDA i : R[i].data_length > 0)
    IN  <<R[d].data_length>>
        \o (IF G.rock_ridge /\ R[d].parent = 0 /\ R[d].dots > 0
            THEN <<BlockSize>> ELSE <<>>)
        \o [k \in DOMAIN files |-> Blocks(R[files[k]].data_length) * BlockSize]

\* the writes of one SVD tree: child records only
SvdDirWrites(G, sel, d) == DirBlock(G, sel, d)

\* the two path tables of a descriptor and the pad of the big-endian one
PtWrites(vd) ==
    IF vd.ptrs = <<>> THEN <<>>
    ELSE <<Put(vd.path_table_location_le, PtBlock("ptle", vd)),
           Put(vd.path_table_location_be, PtBlock("ptbe", vd)),
           Put(vd.path_table_location_be + 1, Zero)>>

\* every write of PyIso.write before the truncate, in the order of the code
AllWrites(G, now) ==
    LET R == G.recs
    IN  (IF G.isohybrid_mbr.present THEN <<Put(0, MbrBlock(G.isohybrid_mbr))>>
         ELSE <<>>)
        \o <<Put(PvdExtent, VdBlock("pvd", G.pvd, R, now))>>
        \o [i \in DOMAIN G.brs |-> Put(G.brs[i].ext, BrBlock(G.brs[i]))]
        \o [i \in DOMAIN G.svds |-> Put(G.svds[i].ext, VdBlock("svd", G.svds[i], R, now))]
        \o [i \in DOMAIN G.vdsts |-> Put(G.vdsts[i], [k |-> "vdst"])]
        \o <<Put(G.version_vd, Zero)>>
        \o PtWrites(G.pvd)
        \o Flatten([i \in DOMAIN G.svds |-> PtWrites(G.svds[i])])
        \o Let(BfsDirs(R, G.pvd.root),
               LAMBDA pdirs : Flatten([k \in DOMAIN pdirs |-> PvdDirWrites(G, pdirs[k])]))
        \o Flatten([i \in DOMAIN G.svds |->
                       Let(BfsDirs(R, G.svds[i].root),
                           LAMBDA sdirs :
                               Flatten([k \in DOMAIN sdirs |->
                                           SvdDirWrites(G, i, sdirs[k])]))])

\* the increments of done between the first and the last progress call
AllIncs(G) ==
    LET R == G.recs
    IN  <<BlockSize>>
        \o [i \in DOMAIN G.brs |-> BlockSize]
        \o [i \in DOMAIN G.svds |-> BlockSize]
        \o [i \in DOMAIN G.vdsts |-> BlockSize]
        \o <<BlockSize>>
        \o <<G.pvd.path_table_num_extents * 2 * BlockSize>>
        \o [i \in DOMAIN G.svds |-> G.svds[i].path_table_num_extents * 2 * BlockSize]
        \o Let(BfsDirs(R, G.pvd.root),
               LAMBDA pdirs : Flatten([k \in DOMAIN pdirs |-> PvdDirIncs(G, pdirs[k])]))
        \o Flatten([i \in DOMAIN G.svds |->
                       Let(BfsDirs(R, G.svds[i].root),
                           LAMBDA sdirs : [k \in DOMAIN sdirs |-> R[sdirs[k]].data_length])])

RECURSIVE Running(_, _)
Running(incs, acc) ==
    IF incs = <<>> THEN <<>>
    ELSE <<acc + Head(incs)>> \o Running(Tail(incs), acc + Head(incs))

\* the records whose record() the writer calls: everything attached below
\* the roots; one of them without an extent makes record() fail
Serialized(G) == Range(TreeOf(G))

WriteCrashes(G) == \E i \in Serialized(G) : G.recs[i].ext = 0

\* the end of the last write, in blocks
HighWater(ws) ==
    IF ws = <<>> THEN 0
    ELSE LET m == CHOOSE k \in DOMAIN ws : \A j \in DOMAIN ws : ws[j].e <= ws[k].e
         IN  ws[m].e + 1

\* the last thing written at extent e
LastAt(ws, e) ==
    ws[CHOOSE k \in DOMAIN ws :
           /\ ws[k].e = e
           /\ \A j \in DOMAIN ws : ws[j].e = e => j <= k].c

\* IsoHybrid.record_padding(iso_size): the bytes that take the image to a
\* whole cylinder
record_padding(iso_size) == pad(iso_size, CylinderSize)

\* PyIso.write(outfp, blocksize, progress_cb) into an empty outfp.  extends
\* tells whether truncate() lengthens a file that is shorter than its
\* argument (the result is platform-dependent).
Image(G, ws, hwm, extends) ==
    [present |-> TRUE,
     length |-> (IF hwm >= G.pvd.space_size \/ extends
                 THEN G.pvd.space_size * BlockSize
                 ELSE hwm * BlockSize)
                + (IF G.isohybrid_mbr.present
                   THEN record_padding(G.pvd.space_size * BlockSize) ELSE 0),
     blocks |-> [e \in {ws[k].e : k \in DOMAIN ws} \cap 0..(G.pvd.space_size - 1)
                    |-> LastAt(ws, e)]]

Written(G, img, hwm) ==
    [res |-> "ok", written |-> TRUE, img |-> img,
     prog |-> [total |-> G.pvd.space_size * BlockSize,
               done |-> <<0>> \o Running(AllIncs(G), 0) \o <<img.length>>,
               hwm |-> hwm]]

Write(G, now, extends) ==
    IF ~G.initialized THEN [res |-> "PyIsoException", written |-> FALSE]
    ELSE IF WriteCrashes(G) THEN [res |-> "Exception", written |-> FALSE]
    ELSE Let(AllWrites(G, now),
             LAMBDA ws :
                 Let(HighWater(ws),
                     LAMBDA hwm : Written(G, Image(G, ws, hwm, extends), hwm)))

(* ------------------------------ the parser ----------------------------- *)
\* the length of a path table record on the image
PtrLen(ident) ==
    IF ident = RootIdent THEN record_length(1) ELSE record_length(Len(ident))

\* PrimaryVolumeDescriptor.parse / SupplementaryVolumeDescriptor.parse of
\* block b found at extent e; root is the object made from the root record
VdOf(b, e, root) ==
    [present |-> TRUE, ext |-> e, space_size |-> b.space_size,
     path_tbl_size |-> b.path_tbl_size,
     path_table_num_extents |-> CeilDiv(b.path_tbl_size, PathTableGroup) * 2,
     path_table_location_le |-> b.path_table_location_le,
     path_table_location_be |-> b.path_table_location_be,
     ptrs |-> <<>>, root |-> root, creation_date |-> b.date]

RootOf(vdname, b) ==
    [NewRec(vdname, RootIdent, 0, TRUE, b.root_len, 0, "", "")
        EXCEPT !.ext = b.root_ext]

\* PyIso._parse_volume_descriptors from extent e on: the descriptors in the
\* order of the image up to the first set terminator
RECURSIVE ScanVDs(_, _, _)
ScanVDs(img, e, acc) ==
    Let(Read(img, e),
        LAMBDA b :
            IF b.k = "pvd"
            THEN ScanVDs(img, e + 1, [acc EXCEPT !.pvds = Append(@, b)])
            ELSE IF b.k = "vdst"
            THEN [acc EXCEPT !.vdsts = <<e>>, !.res = "ok"]
            ELSE IF b.k = "br"
            THEN ScanVDs(img, e + 1,
                         [acc EXCEPT !.brs = Append(@, [elt |-> b.elt, ext |-> e,
                                       boot_system_use |-> b.boot_system_use])])
            ELSE IF b.k = "svd"
            THEN ScanVDs(img, e + 1,
                         [acc EXCEPT !.svds = Append(@, [b |-> b, e |-> e])])
            ELSE IF b.k = "eof" THEN [acc EXCEPT !.res = "Exception"]
            ELSE [acc EXCEPT !.res = "PyIsoException"])

\* PyIso._parse_path_table with the little-endian callback: the records of
\* the table, as many as the path table size of the descriptor covers,
\* enter the list of the descriptor in sorted position
RECURSIVE InsertPtrs(_, _, _, _)
InsertPtrs(vd, rows, k, left) ==
    IF left <= 0 \/ k > Len(rows) THEN vd
    ELSE InsertPtrs(add_path_table_record(
                        vd, [NewPtr(rows[k].ident, 0, rows[k].parent_num)
                                EXCEPT !.ext = rows[k].ext]),
                    rows, k + 1, left - PtrLen(rows[k].ident))

\* path_table_record_be_equal_to_le on every record of the sorted list of
\* big-endian records
BeEqualLe(vd, rows) ==
    Let(InsertPtrs([vd EXCEPT !.ptrs = <<>>], rows, 1, vd.path_tbl_size).ptrs,
        LAMBDA be :
            /\ Len(be) <= Len(vd.ptrs)
            /\ \A i \in DOMAIN be :
                   /\ be[i].ident = vd.ptrs[i].ident
                   /\ be[i].ext = vd.ptrs[i].ext
                   /\ be[i].parent_num = vd.ptrs[i].parent_num)

\* HeaderVolumeDescriptor.set_ptr_dirrecord: the root takes the first path
\* table record, another directory the first record with its identifier
set_ptr_dirrecord(vd, R, id) ==
    Let(IF R[id].parent = 0 THEN (IF vd.ptrs = <<>> THEN 0 ELSE 1)
        ELSE find_ptr_index_matching_ident(vd, R[id].ident),
        LAMBDA i : IF i = 0 THEN vd ELSE [vd EXCEPT !.ptrs[i].dr = id])

\* the payload a parsed file record refers to
ContentAt(img, e) ==
    Let(Read(img, e), LAMBDA b : IF b.k = "cat" THEN b ELSE DataContent)

\* the part of PyIso._walk_directories that handles the k-th record of the
\* extent of directory d; A carries the graph, the descriptor under walk,
\* the queue of directories and the outcome
\* the record made from row of the extent of directory d
ParsedRec(img, sel, d, row, id) ==
    [vd |-> IF sel = 0 THEN "pvd" ELSE "svd",
     ident |-> row.ident, parent |-> d, isdir |-> row.isdir,
     data_length |-> row.data_length, ext |-> row.ext,
     att |-> TRUE, dots |-> 0, fp |-> id,
     rr_name |-> row.rr_name, rr_kind |-> row.rr_kind,
     link |-> 0, link_ext |-> row.link_ext,
     content |-> IF ~row.isdir /\ row.data_length > 0
                 THEN ContentAt(img, row.ext)
                 ELSE DataContent]

\* the El Torito part of the walk: a record of the primary tree at the
\* extent of the catalog is the catalog's record, one at the extent of the
\* initial entry the boot file's
MatchEltorito(G, sel, row, id) ==
    IF sel = 0 /\ G.eltorito.active /\ row.dot = 0
    THEN IF row.ext = G.brs[G.eltorito.br].boot_system_use
         THEN [G EXCEPT !.eltorito.dirrecord = id]
         ELSE IF row.ext = G.eltorito.load_rba
         THEN [G EXCEPT !.eltorito.initial_entry_dirrecord = id]
         ELSE G
    ELSE G

\* what one record of the extent of directory d does to the graph
WalkedRow(img, G, sel, d, row) ==
    MatchEltorito(
        [G EXCEPT !.rock_ridge = @ \/ row.rr_kind # "",
                  !.recs = IF row.dot > 0 THEN [@ EXCEPT ![d].dots = @ + 1]
                           ELSE Append(@, ParsedRec(img, sel, d, row, Len(@) + 1)),
                  !.er_extent = IF row.dot > 0 /\ row.ce # 0 THEN row.ce ELSE @],
        sel, row, Len(G.recs) + 1)

\* the part of PyIso._walk_directories that handles the k-th record of the
\* extent of directory d; A carries the graph, the descriptor under walk,
\* the queue of directories and the outcome
RECURSIVE WalkEntries(_, _, _, _, _, _)
WalkEntries(img, A, sel, d, rows, k) ==
    IF k > Len(rows) THEN A
    ELSE WalkEntries(
             img,
             IF rows[k].isdir /\ rows[k].dot = 0
             THEN Let(WalkedRow(img, A.G, sel, d, rows[k]),
                      LAMBDA G3 :
                          [A EXCEPT !.G = G3,
                                    !.vd = set_ptr_dirrecord(@, G3.recs,
                                                             Len(A.G.recs) + 1),
                                    !.queue = Append(@, Len(A.G.recs) + 1)])
             ELSE [A EXCEPT !.G = WalkedRow(img, A.G, sel, d, rows[k])],
             sel, d, rows, k + 1)

\* PyIso._walk_directories(vd, ...): the queue of directories is worked off
\* in order; a directory whose extent lies past the end of the image makes
\* the read fail
RECURSIVE WalkQueue(_, _, _)
WalkQueue(img, A, sel) ==
    IF A.queue = <<>> THEN A
    ELSE IF A.G.recs[Head(A.queue)].data_length = 0
    THEN WalkQueue(img, [A EXCEPT !.queue = Tail(@)], sel)
    ELSE Let(Read(img, A.G.recs[Head(A.queue)].ext),
             LAMBDA b :
                 IF b.k = "dir"
                 THEN WalkQueue(img,
                                WalkEntries(img, [A EXCEPT !.queue = Tail(@)], sel,
                                            Head(A.queue), b.entries, 1),
                                sel)
                 ELSE IF b.k = "zero"
                 THEN WalkQueue(img, [A EXCEPT !.queue = Tail(@)], sel)
                 ELSE IF b.k = "eof" THEN [A EXCEPT !.res = "Exception"]
                 ELSE [A EXCEPT !.res = "PyIsoException"])

\* the walk of descriptor sel and the graph with what it found
walk_directories(img, G, sel) ==
    Let(WalkQueue(img, [G |-> G,
                        vd |-> set_ptr_dirrecord(GetVD(G, sel), G.recs,
                                                 GetVD(G, sel).root),
                        queue |-> <<GetVD(G, sel).root>>, res |-> "ok"], sel),
        LAMBDA w : [res |-> w.res, G |-> SetVD(w.G, sel, w.vd)])

\* the big-endian half of the path tables of descriptor sel: vd1 is the
\* descriptor with the little-endian records
ParseBigEndian(G, sel, vd1, be, compare) ==
    [res |-> IF be.k = "eof" THEN "Exception"
             ELSE IF be.k # "ptbe" THEN "PyIsoException"
             ELSE IF compare /\ ~BeEqualLe(vd1, be.ptrs) THEN "PyIsoException"
             ELSE "ok",
     G |-> SetVD(G, sel, vd1)]

\* the path tables of descriptor sel: the little-endian table fills the
\* list of the descriptor; compare tells whether the big-endian table is
\* checked against it
ParsePathTables(img, G, sel, compare) ==
    Let(Read(img, GetVD(G, sel).path_table_location_le),
        LAMBDA le :
            IF le.k = "eof" THEN [res |-> "Exception", G |-> G]
            ELSE IF le.k # "ptle" THEN [res |-> "PyIsoException", G |-> G]
            ELSE ParseBigEndian(G, sel,
                                InsertPtrs(GetVD(G, sel), le.ptrs, 1,
                                           GetVD(G, sel).path_tbl_size),
                                Read(img, GetVD(G, sel).path_table_location_be),
                                compare))

\* the catalog of the boot record i
ParseCatalog(G, i, b) ==
    [res |-> IF b.k = "eof" THEN "Exception"
             ELSE IF b.k # "cat" THEN "PyIsoException"
             ELSE "ok",
     G |-> [G EXCEPT !.eltorito =
                         [NoCatalog EXCEPT !.active = TRUE, !.br = i,
                                           !.load_rba = IF b.k = "cat"
                                                        THEN b.load_rba ELSE 0,
                                           !.sector_count = IF b.k = "cat"
                                                            THEN b.sector_count
                                                            ELSE 0]]]

\* PyIso._check_and_parse_eltorito on the i-th boot record onwards
RECURSIVE CheckEltorito(_, _, _)
CheckEltorito(img, G, i) ==
    IF i > Len(G.brs) THEN [res |-> "ok", G |-> G]
    ELSE IF ~G.brs[i].elt THEN CheckEltorito(img, G, i + 1)
    ELSE IF G.eltorito.active THEN [res |-> "PyIsoException", G |-> G]
    ELSE IF G.brs[i].ext # ElToritoExtent THEN [res |-> "PyIsoException", G |-> G]
    ELSE Let(ParseCatalog(G, i, Read(img, G.brs[i].boot_system_use)),
             LAMBDA c : IF c.res # "ok" THEN c ELSE CheckEltorito(img, c.G, i + 1))

\* a step of the parser that runs only when the steps before it went well
Then(o, F(_)) == IF o.res # "ok" THEN o ELSE F(o.G)

\* the Joliet SVDs of PyIso.open from the i-th SVD on: path tables (not
\* compared) and the walk
RECURSIVE OpenSvds(_, _, _)
OpenSvds(img, G, i) ==
    IF i > Len(G.svds) THEN [res |-> "ok", G |-> G]
    ELSE IF G.joliet_vd # 0 THEN [res |-> "PyIsoException", G |-> G]
    ELSE Then(ParsePathTables(img, [G EXCEPT !.joliet_vd = i], i, FALSE),
         LAMBDA G1 :
         Then(walk_directories(img, G1, i),
         LAMBDA G2 : OpenSvds(img, G2, i + 1)))

\* the graph with the descriptors the scan s found; the root records are
\* the first records of the arena
Scanned(G, s) ==
    [G EXCEPT !.recs = [i \in DOMAIN s.pvds |-> RootOf("pvd", s.pvds[i])]
                       \o [i \in DOMAIN s.svds |-> RootOf("svd", s.svds[i].b)],
              !.brs = s.brs, !.vdsts = s.vdsts,
              !.svds = [i \in DOMAIN s.svds |->
                           VdOf(s.svds[i].b, s.svds[i].e, Len(s.pvds) + i)]]

\* the isohybrid MBR at the start of the image, if there is one
ProbeMbr(G, mbr) ==
    IF mbr.k = "mbr" /\ mbr.magic
    THEN [G EXCEPT !.isohybrid_mbr = [present |-> TRUE, magic |-> TRUE,
                                      rba |-> mbr.rba]]
    ELSE G

\* PyIso.open after the descriptors were read
OpenScanned(img, G1, s) ==
    IF Len(s.pvds) # 1 THEN Raise(G1)
    ELSE Then(CheckEltorito(img,
                            ProbeMbr([G1 EXCEPT !.pvd = VdOf(s.pvds[1], PvdExtent, 1)],
                                     Read(img, 0)),
                            1),
         LAMBDA G2 :
         Then(ParsePathTables(img, [G2 EXCEPT !.version_vd = G1.vdsts[1] + 1], 0, TRUE),
         LAMBDA G3 :
         Then(walk_directories(img, G3, 0),
         LAMBDA G4 :
         Then(OpenSvds(img, [G4 EXCEPT !.interchange_level = 1, !.joliet_vd = 0], 1),
         LAMBDA G5 : Ok([G5 EXCEPT !.initialized = TRUE])))))

\* PyIso.open(fp)
Open(G, img) ==
    IF G.initialized THEN Raise(G)
    ELSE Let(ScanVDs(img, PvdExtent,
                     [pvds |-> <<>>, svds |-> <<>>, brs |-> <<>>,
                      vdsts |-> <<>>, res |-> "ok"]),
             LAMBDA s :
                 IF s.res # "ok" THEN [res |-> s.res, G |-> [G EXCEPT !.cdfp = [present |-> TRUE]]]
                 ELSE OpenScanned(img, Scanned([G EXCEPT !.cdfp = [present |-> TRUE]], s), s))

\* what the round trip compares: the graph without the image it came from
\* and without the volume dates
Structure(G) ==
    [G EXCEPT !.cdfp = NoImage, !.pvd.creation_date = 0,
              !.svds = [i \in DOMAIN G.svds |->
                           [G.svds[i] EXCEPT !.creation_date = 0]]]

(* --------------------------- object identity --------------------------- *)
\* Directory records are Python objects: one that nothing refers to any
\* more is gone, and the place of an object in the arena has no meaning.
\* Canon(G) is G with the unreferenced records dropped and the others
\* numbered in the order of the hierarchies (primary first, breadth first),
\* the detached but referenced ones last.
RECURSIVE RefClosure(_, _)
RefClosure(R, S) ==
    LET S2 == (S \cup {R[i].parent : i \in S} \cup {R[i].link : i \in S}) \ {0}
    IN  IF S2 = S THEN S ELSE RefClosure(R, S2)

RECURSIVE Ascending(_)
Ascending(S) ==
    IF S = {} THEN <<>>
    ELSE LET m == CHOOSE x \in S : \A y \in S : x <= y
         IN  <<m>> \o Ascending(S \ {m})

\* the records something refers to from outside the hierarchies
RefsOf(G) ==
    {G.eltorito.dirrecord, G.eltorito.initial_entry_dirrecord}
    \cup {G.pvd.ptrs[i].dr : i \in DOMAIN G.pvd.ptrs}
    \cup UNION {{G.svds[s].ptrs[i].dr : i \in DOMAIN G.svds[s].ptrs}
                : s \in DOMAIN G.svds}

\* the new number of every record of R under the order, 0 for a dropped one
Renumbering(R, order) ==
    [i \in 0..Len(R) |->
        IF i \in Range(order) THEN CHOOSE k \in DOMAIN order : order[k] = i ELSE 0]

\* the files of the records in the order, numbered by first occurrence
FileNumbering(R, order) ==
    [t \in {R[order[k]].fp : k \in DOMAIN order} |->
        CHOOSE k \in DOMAIN order :
            /\ R[order[k]].fp = t
            /\ \A j \in 1..(k - 1) : R[order[j]].fp # t]

RenumberVD(vd, pos) ==
    [vd EXCEPT !.root = pos[@],
               !.ptrs = [i \in DOMAIN @ |-> [@[i] EXCEPT !.dr = pos[@]]]]

Renumber(G, order, pos, fpos) ==
    [G EXCEPT !.recs = [k \in DOMAIN order |->
                           [@[order[k]] EXCEPT !.parent = pos[@],
                                               !.link = pos[@],
                                               !.fp = fpos[@]]],
              !.pvd = RenumberVD(@, pos),
              !.svds = [s \in DOMAIN @ |-> RenumberVD(@[s], pos)],
              !.eltorito.dirrecord = pos[@],
              !.eltorito.initial_entry_dirrecord = pos[@]]

CanonIn(G, order) ==
    Renumber(G, order, Renumbering(G.recs, order), FileNumbering(G.recs, order))

Canon(G) ==
    Let(TreeOf(G),
        LAMBDA tree :
            CanonIn(G, tree \o Ascending(RefClosure(G.recs,
                                             (Range(tree) \cup RefsOf(G)) \ {0})
                                         \ Range(tree))))

(* ------------------------ inputs of the callers ------------------------ *)
\* the rr_path a caller passes who knows whether the image has Rock Ridge
RrArg == IF rock_ridge THEN <<"r">> ELSE NoneArg

InterchangeLevels == {0, 1}

\* the clock readings of the calls of write(): the volume dates of what
\* new() made are 0, every write() happens later than the dates it finds
Dates == 1..MaxDate

NoProgress == [total |-> 0, done |-> <<>>, hwm |-> 0]

(* ------------------------------- actions ------------------------------- *)
\* one API call with outcome o: the object becomes what the call left, the
\* observer notes the call and what it raised.  The caller keeps the file of
\* the last write() for as long as the object is what was written (close()
\* aside), and throws it away when it changes the object.
Abs(x) == IF x < 0 THEN -x ELSE x

\* the space_size of every descriptor is within MaxDrift of the extent the
\* allocator would end at
Bounded(G) ==
    G.initialized =>
        Let(ReshuffleExtents(G).end_extent,
            LAMBDA e :
                /\ Abs(G.pvd.space_size - e) <= MaxDrift
                /\ \A i \in DOMAIN G.svds :
                       Abs(G.svds[i].space_size - e) <= MaxDrift)

\* what a call without extension arguments notes: no rr_path, no
\* joliet_path, a relative link target
NoArgs == [rr_path |-> NoneArg, joliet_path |-> NoneArg, relative |-> TRUE]

ExtArgs(rr_path, joliet_path) ==
    [rr_path |-> rr_path, joliet_path |-> joliet_path, relative |-> TRUE]

LandedWith(name, path, args, res, G2, cap) ==
    /\ Len(G2.recs) <= cap
    /\ Bounded(G2)
    /\ Become(G2)
    /\ op' = name
    /\ path_arg' = path
    /\ call_args' = args
    /\ UNCHANGED probe
    /\ result' = res
    /\ progress' = NoProgress
    /\ outfp' = IF G2 = Cur THEN outfp ELSE NoImage
    /\ UNCHANGED history

CallWith(name, path, args, o, cap) ==
    LandedWith(name, path, args, o.res, Canon(o.G), cap)

CallAt(name, path, o, cap) == CallWith(name, path, NoArgs, o, cap)

Call(name, o, cap) == CallAt(name, NoneArg, o, cap)

\* no function has been applied on its own
NoProbe == [fn |-> "none", arg |-> <<>>, out |-> [res |-> "ok", d |-> <<>>]]

\* the object as PyIso() leaves it
Constructed ==
    /\ initialized = Initialized0.initialized
    /\ interchange_level = Initialized0.interchange_level
    /\ rock_ridge = Initialized0.rock_ridge
    /\ recs = Initialized0.recs
    /\ pvd = Initialized0.pvd
    /\ svds = Initialized0.svds
    /\ joliet_vd = Initialized0.joliet_vd
    /\ brs = Initialized0.brs
    /\ vdsts = Initialized0.vdsts
    /\ version_vd = Initialized0.version_vd
    /\ er_extent = Initialized0.er_extent
    /\ eltorito = Initialized0.eltorito
    /\ isohybrid_mbr = Initialized0.isohybrid_mbr
    /\ end_extent = Initialized0.end_extent
    /\ cdfp = Initialized0.cdfp
    /\ outfp = NoImage
    /\ progress = NoProgress
    /\ history = "none"
    /\ op = "init"
    /\ path_arg = NoneArg
    /\ call_args = NoArgs
    /\ result = "ok"

Init == Constructed /\ probe = NoProbe

\* new() with outcome res that leaves graph G2
NewLanded(res, G2) ==
    /\ Become(G2)
    /\ op' = "new"
    /\ path_arg' = NoneArg
    /\ call_args' = NoArgs
    /\ UNCHANGED probe
    /\ result' = res
    /\ history' = IF res = "ok" THEN "new" ELSE history
    /\ progress' = NoProgress
    /\ outfp' = IF G2 = Cur THEN outfp ELSE NoImage

NewCall(o) == NewLanded(o.res, Canon(o.G))

NewStep(levels, joliets, rrs) ==
    \E level \in levels, joliet \in joliets, rr \in rrs :
        NewCall(New(Cur, level, joliet, rr))

CloseCall(o) ==
    /\ Become(o.G)
    /\ op' = "close"
    /\ path_arg' = NoneArg
    /\ call_args' = NoArgs
    /\ UNCHANGED probe
    /\ result' = o.res
    /\ history' = IF o.res = "ok" THEN "none" ELSE history
    /\ progress' = NoProgress
    /\ UNCHANGED outfp

close == CloseCall(Close(Cur))

\* write() into an empty file of the caller.  A call that dies half way
\* leaves a file the caller does not go on to use.
WriteCall(o) ==
    /\ op' = "write"
    /\ path_arg' = NoneArg
    /\ call_args' = NoArgs
    /\ UNCHANGED probe
    /\ result' = o.res
    /\ outfp' = IF o.written THEN o.img
                ELSE IF o.res = "PyIsoException" THEN outfp
                ELSE NoImage
    /\ progress' = IF o.written THEN o.prog ELSE NoProgress
    /\ UNCHANGED <<graphvars, history>>

write ==
    \E now \in {d \in Dates : d = pvd.creation_date + 1}, extends \in BOOLEAN :
        WriteCall(Write(Cur, now, extends))

\* open() on the file the last write() produced; the caller hands the file
\* over, so that it is no longer the output of a write
OpenLandedWith(res, G2, p) ==
    /\ Become(G2)
    /\ op' = "open"
    /\ path_arg' = NoneArg
    /\ call_args' = NoArgs
    /\ probe' = p
    /\ result' = res
    /\ history' = IF res = "ok" THEN "open" ELSE history
    /\ outfp' = IF G2 = Cur THEN outfp ELSE NoImage
    /\ progress' = NoProgress

OpenLanded(res, G2) == OpenLandedWith(res, G2, probe)

OpenCall(o) == OpenLanded(o.res, Canon(o.G))

open == outfp.present /\ OpenCall(Open(Cur, outfp))

AddFpStep(lengths, paths, rrargs, jargs, cap) ==
    \E length \in lengths, iso_path \in paths, rr_path \in rrargs,
       joliet_path \in jargs :
        LET o == AddFp(Cur, length, iso_path, rr_path, joliet_path)
        IN  CallWith("add_fp", iso_path, ExtArgs(rr_path, joliet_path), o, cap)

AddDirectoryStep(paths, rrargs, jargs, cap) ==
    \E iso_path \in paths, rr_path \in rrargs, joliet_path \in jargs :
        LET o == AddDirectory(Cur, iso_path, rr_path, joliet_path)
        IN  CallWith("add_directory", iso_path, ExtArgs(rr_path, joliet_path),
                     o, cap)

RmFileStep(paths, cap) ==
    \E iso_path \in paths :
        CallAt("rm_file", iso_path, RmFile(Cur, iso_path), cap)

RmDirectoryStep(paths, jargs, cap) ==
    \E iso_path \in paths, joliet_path \in jargs :
        CallWith("rm_directory", iso_path, ExtArgs(NoneArg, joliet_path),
                 RmDirectory(Cur, iso_path, joliet_path), cap)

(* ---- Spec: every call of the API, by a caller who passes the paths the
        extensions of the image ask for ---- *)
JolietArg(x) == IF joliet_vd # 0 THEN <<x>> ELSE NoneArg

new == NewStep(InterchangeLevels, BOOLEAN, BOOLEAN)

add_fp == AddFpStep({BlockSize + 1}, {<<"F">>}, {RrArg}, {JolietArg("a")}, MaxRecs)

add_directory == AddDirectoryStep({<<"A">>}, {RrArg}, {JolietArg("b")}, MaxRecs)

rm_file == RmFileStep({<<"F">>}, MaxRecs)

rm_directory == RmDirectoryStep({<<"A">>}, {JolietArg("b")}, MaxRecs)

add_eltorito ==
    LET o == AddEltorito(Cur, <<"F">>, <<BootCatName>>, <<JolietBootCatName>>,
                         IsohybridSectorCount)
    IN  Call("add_eltorito", o, MaxRecs)

rm_eltorito == Call("rm_eltorito", RmEltorito(Cur), MaxRecs)

add_symlink ==
    LET o == AddSymlink(Cur, <<"G">>, "s", TRUE)
    IN  Call("add_symlink", o, MaxRecs)

add_isohybrid ==
    Call("add_isohybrid", AddIsohybrid(Cur, IsohybridPrefixSize, TRUE, TRUE), MaxRecs)

rm_isohybrid == Call("rm_isohybrid", RmIsohybrid(Cur), MaxRecs)

get_entry == Call("get_entry", GetEntry(Cur, <<"F">>), MaxRecs)

list_dir == Call("list_dir", ListDir(Cur, RootPath), MaxRecs)

print_tree == Call("print_tree", PrintTree(Cur), MaxRecs)

get_and_write == Call("get_and_write", GetAndWrite(Cur, <<"F">>), MaxRecs)

Next ==
    \/ new
    \/ open
    \/ close
    \/ write
    \/ add_fp
    \/ add_directory
    \/ rm_file
    \/ rm_directory
    \/ add_eltorito
    \/ rm_eltorito
    \/ add_symlink
    \/ add_isohybrid
    \/ rm_isohybrid
    \/ get_entry
    \/ list_dir
    \/ print_tree
    \/ get_and_write

Spec == Init /\ [][Next]_vars

(* ---- SpecJoliet: callers that keep both hierarchies of a Joliet image
        and name any parent in either of them ---- *)
JolietDirPaths == {<<"A">>, <<"B">>}

JolietDirArgs == {<<"a">>, <<"b">>}

JolietFilePaths == {<<"F">>, <<"A", "F">>}

JolietFileArgs == {<<"c">>, <<"b", "c">>}

joliet_new == NewStep({1}, {TRUE}, {FALSE})

joliet_add_fp ==
    AddFpStep({BlockSize + 1}, JolietFilePaths, {NoneArg}, JolietFileArgs, MaxJolietRecs)

joliet_add_directory ==
    AddDirectoryStep(JolietDirPaths, {NoneArg}, JolietDirArgs, MaxJolietRecs)

joliet_rm_file == RmFileStep(JolietFilePaths, MaxJolietRecs)

joliet_rm_directory == RmDirectoryStep(JolietDirPaths, JolietDirArgs, MaxJolietRecs)

NextJoliet ==
    \/ joliet_new
    \/ joliet_add_fp
    \/ joliet_add_directory
    \/ joliet_rm_file
    \/ joliet_rm_directory

SpecJoliet == Init /\ [][NextJoliet]_vars

(* ---- SpecDeep: callers that build one chain of directories, with paths
        of up to MaxDeepPath components ---- *)
ChainNames == <<"A", "B", "C", "D", "E", "H", "I", "J", "K", "L">>

Chain(n) == SubSeq(ChainNames, 1, n)

DeepDirPaths == {Chain(n) : n \in 1..MaxDeepPath}

DeepFilePaths ==
    {<<"F">>} \cup {Append(Chain(n), "F") : n \in (MaxComponents - 1)..(MaxDeepPath - 1)}

deep_new == NewStep({1}, {FALSE}, BOOLEAN)

deep_add_fp == AddFpStep({1}, DeepFilePaths, {RrArg}, {NoneArg}, MaxDeepRecs)

deep_add_directory == AddDirectoryStep(DeepDirPaths, {RrArg}, {NoneArg}, MaxDeepRecs)

deep_rm_file == RmFileStep(DeepFilePaths, MaxDeepRecs)

deep_rm_directory == RmDirectoryStep(DeepDirPaths, {NoneArg}, MaxDeepRecs)

NextDeep ==
    \/ deep_new
    \/ deep_add_fp
    \/ deep_add_directory
    \/ deep_rm_file
    \/ deep_rm_directory

SpecDeep == Init /\ [][NextDeep]_vars

(* ---- SpecBoot: boot records.  The caller opens images that come from
        elsewhere and passes add_eltorito good and bad arguments ---- *)
MaxBootRecs == 5

\* a boot record that does not carry the El Torito identifier
ForeignBootRecord == [elt |-> FALSE, ext |-> 0, boot_system_use |-> 0]

\* a well-formed image from elsewhere whose only boot record is not an
\* El Torito one: PVD, boot record, terminator, an empty root directory
ForeignBootGraph ==
    ReshuffleExtents([New(Initialized0, 1, FALSE, FALSE).G
                         EXCEPT !.brs = <<ForeignBootRecord>>,
                                !.pvd = add_to_space_size(@, BlockSize)])

\* an image from elsewhere with an El Torito boot record, its catalog and
\* boot file, and a second boot record with the El Torito identifier
TwoElToritoGraph ==
    Let(AddFp(New(Initialized0, 1, FALSE, FALSE).G, 1, <<"F">>, NoneArg, NoneArg).G,
        LAMBDA G1 :
            Let(AddEltorito(G1, <<"F">>, <<BootCatName>>, NoneArg,
                            IsohybridSectorCount).G,
                LAMBDA G2 :
                    ReshuffleExtents(
                        [G2 EXCEPT !.brs = Append(@, [ForeignBootRecord
                                                         EXCEPT !.elt = TRUE]),
                                   !.pvd = add_to_space_size(@, BlockSize)])))

ForeignImages ==
    {Write(ForeignBootGraph, 1, TRUE).img, Write(TwoElToritoGraph, 1, TRUE).img}

\* the boot catalog paths of the callers: a good one, a name that is no
\* ISO9660 name, a path of eight components, a parent that is not there
BootCatPaths ==
    {<<BootCatName>>, <<BadName>>, Append(Chain(MaxComponents), BootCatName),
     <<"A", BootCatName>>}

JolietBootCatPaths == {<<JolietBootCatName>>, <<"b", JolietBootCatName>>}

boot_new == NewStep({1}, BOOLEAN, {FALSE})

boot_open_foreign == \E img \in ForeignImages : OpenCall(Open(Cur, img))

boot_open == open

boot_write == write

boot_close == close

boot_add_fp == AddFpStep({1}, {<<"F">>}, {NoneArg}, {JolietArg("a")}, MaxBootRecs)

boot_rm_file == RmFileStep({<<"F">>}, MaxBootRecs)

boot_add_eltorito ==
    \E bootfile \in {<<"F">>, <<"G">>}, bootcatfile \in BootCatPaths,
       joliet_bootcatfile \in JolietBootCatPaths :
        CallAt("add_eltorito", bootcatfile,
               AddEltorito(Cur, bootfile, bootcatfile, joliet_bootcatfile,
                           IsohybridSectorCount),
               MaxBootRecs)

boot_rm_eltorito == Call("rm_eltorito", RmEltorito(Cur), MaxBootRecs)

NextBoot ==
    \/ boot_new
    \/ boot_open_foreign
    \/ boot_open
    \/ boot_write
    \/ boot_close
    \/ boot_add_fp
    \/ boot_rm_file
    \/ boot_add_eltorito
    \/ boot_rm_eltorito

SpecBoot == Init /\ [][NextBoot]_vars

(* ---- SpecCalls: a caller who passes any mix of extension arguments, and
        removes what is there, what is not, and what is of the other
        kind ---- *)
MaxCallRecs == 8

ExtensionArgs(x) == {NoneArg, <<x>>}

calls_new == NewStep({1}, BOOLEAN, BOOLEAN)

calls_add_fp ==
    AddFpStep({1}, {<<"F">>, <<"A", "F">>}, ExtensionArgs("r"),
              ExtensionArgs("a"), MaxCallRecs)

calls_add_directory ==
    AddDirectoryStep({<<"A">>}, ExtensionArgs("r"), ExtensionArgs("b"),
                     MaxCallRecs)

calls_add_symlink ==
    \E relative \in BOOLEAN :
        CallWith("add_symlink", <<"G">>, [NoArgs EXCEPT !.relative = relative],
                 AddSymlink(Cur, <<"G">>, "s", relative), MaxCallRecs)

calls_rm_file == RmFileStep({<<"F">>, <<"A">>, <<"A", "F">>}, MaxCallRecs)

calls_rm_directory ==
    RmDirectoryStep({RootPath, <<"A">>, <<"F">>}, {JolietArg("b")}, MaxCallRecs)

NextCalls ==
    \/ calls_new
    \/ calls_add_fp
    \/ calls_add_directory
    \/ calls_add_symlink
    \/ calls_rm_file
    \/ calls_rm_directory

SpecCalls == Init /\ [][NextCalls]_vars

(* ---- SpecLayout: images whose boot file and other files are longer than
        one block ---- *)
MaxLayoutRecs == 8

layout_new == NewStep({1}, BOOLEAN, BOOLEAN)

layout_add_fp ==
    AddFpStep({1, BlockSize + 1}, {<<"F">>, <<"G">>, <<"A", "F">>}, {RrArg},
              {JolietArg("a")}, MaxLayoutRecs)

layout_add_directory ==
    AddDirectoryStep({<<"A">>}, {RrArg}, {JolietArg("b")}, MaxLayoutRecs)

layout_rm_file == RmFileStep({<<"F">>, <<"G">>}, MaxLayoutRecs)

layout_add_eltorito ==
    CallAt("add_eltorito", <<BootCatName>>,
           AddEltorito(Cur, <<"F">>, <<BootCatName>>, <<JolietBootCatName>>,
                       IsohybridSectorCount),
           MaxLayoutRecs)

layout_rm_eltorito == Call("rm_eltorito", RmEltorito(Cur), MaxLayoutRecs)

NextLayout ==
    \/ layout_new
    \/ layout_add_fp
    \/ layout_add_directory
    \/ layout_rm_file
    \/ layout_add_eltorito
    \/ layout_rm_eltorito

SpecLayout == Init /\ [][NextLayout]_vars

(* ---- SpecEndian: the both-endian fields of a volume descriptor, parsed
        from and recorded to bytes on a host of either byte order ---- *)
\* an unsigned integer of the bytes b, least significant byte first
RECURSIVE LittleEndian(_)
LittleEndian(b) == IF b = <<>> THEN 0 ELSE Head(b) + 256 * LittleEndian(Tail(b))

Reverse(b) == [i \in DOMAIN b |-> b[Len(b) + 1 - i]]

BigEndian(b) == LittleEndian(Reverse(b))

\* the n bytes of v, least significant byte first
RECURSIVE LittleEndianBytes(_, _)
LittleEndianBytes(v, n) ==
    IF n = 0 THEN <<>> ELSE <<v % 256>> \o LittleEndianBytes(v \div 256, n - 1)

\* struct.unpack and struct.pack with '=': the byte order of the host
Unpack(host, b) == IF host = "little" THEN LittleEndian(b) ELSE BigEndian(b)

Pack(host, v, n) ==
    IF host = "little" THEN LittleEndianBytes(v, n)
    ELSE Reverse(LittleEndianBytes(v, n))

swab_16bit(v) == BigEndian(LittleEndianBytes(v, 2))

swab_32bit(v) == BigEndian(LittleEndianBytes(v, 4))

\* the five both-endian fields, in the order the parsers compare them
BothEndianFields ==
    <<"space_size", "set_size", "seqnum", "log_block_size", "path_tbl_size">>

\* what a function that raised the library error gave
Refused == [res |-> "PyIsoException", d |-> <<>>]

\* a parse that compares the halves of the space size only
VolumeDescriptorParseFirst(host, vd) ==
    LET le(f) == Unpack(host, vd[f].le)
        be(f) == Unpack(host, vd[f].be)
    IN  IF ~vd.header THEN Refused
        ELSE IF le("space_size") # swab_32bit(be("space_size")) THEN Refused
        ELSE IF ~vd.tail THEN Refused
        ELSE [res |-> "ok",
              d |-> [space_size |-> le("space_size"), set_size |-> le("set_size"),
                     seqnum |-> le("seqnum"),
                     log_block_size |-> le("log_block_size"),
                     path_tbl_size |-> le("path_tbl_size"),
                     path_table_num_extents |->
                         CeilDiv(le("path_tbl_size"), 4096) * 2]]

\* PrimaryVolumeDescriptor.parse / SupplementaryVolumeDescriptor.parse on a
\* descriptor vd: header is whether the type, identifier, version and unused
\* fields are what the parser wants, tail whether the identifiers, dates and
\* root directory record parse
VolumeDescriptorParse(host, vd) ==
    LET le(f) == Unpack(host, vd[f].le)
        be(f) == Unpack(host, vd[f].be)
    IN  IF ~vd.header THEN Refused
        ELSE IF le("space_size") # swab_32bit(be("space_size")) THEN Refused
        ELSE IF le("set_size") # swab_16bit(be("set_size")) THEN Refused
        ELSE IF le("seqnum") # swab_16bit(be("seqnum")) THEN Refused
        ELSE IF le("log_block_size") # swab_16bit(be("log_block_size"))
        THEN Refused
        ELSE IF le("path_tbl_size") # swab_32bit(be("path_tbl_size"))
        THEN Refused
        ELSE IF ~vd.tail THEN Refused
        ELSE [res |-> "ok",
              d |-> [space_size |-> le("space_size"), set_size |-> le("set_size"),
                     seqnum |-> le("seqnum"),
                     log_block_size |-> le("log_block_size"),
                     path_tbl_size |-> le("path_tbl_size"),
                     path_table_num_extents |->
                         CeilDiv(le("path_tbl_size"), 4096) * 2]]

\* the both-endian fields of what record() packs
VolumeDescriptorRecord(host, d) ==
    [space_size |-> [le |-> Pack(host, d.space_size, 4),
                     be |-> Pack(host, swab_32bit(d.space_size), 4)],
     set_size |-> [le |-> Pack(host, d.set_size, 2),
                   be |-> Pack(host, swab_16bit(d.set_size), 2)],
     seqnum |-> [le |-> Pack(host, d.seqnum, 2),
                 be |-> Pack(host, swab_16bit(d.seqnum), 2)],
     log_block_size |-> [le |-> Pack(host, d.log_block_size, 2),
                         be |-> Pack(host, swab_16bit(d.log_block_size), 2)],
     path_tbl_size |-> [le |-> Pack(host, d.path_tbl_size, 4),
                        be |-> Pack(host, swab_32bit(d.path_tbl_size), 4)]]

\* the halves the descriptors are drawn from: each is the other reversed,
\* and each is the little-endian form of one value and the big-endian form
\* of another
Halves16 == {<<1, 0>>, <<0, 1>>}
Halves32 == {<<1, 0, 0, 0>>, <<0, 0, 0, 1>>}

Hosts == {"little", "big"}

Descriptors ==
    [header : BOOLEAN, tail : BOOLEAN,
     space_size : [le : Halves32, be : Halves32],
     set_size : [le : Halves16, be : Halves16],
     seqnum : [le : Halves16, be : Halves16],
     log_block_size : [le : Halves16, be : Halves16],
     path_tbl_size : [le : Halves32, be : Halves32]]

InitEndian ==
    /\ Constructed
    /\ probe \in {[fn |-> "none", arg |-> [host |-> h, vd |-> vd], out |-> NoProbe.out]
                      : h \in Hosts, vd \in Descriptors}

Probed(fn, out) ==
    /\ probe' = [probe EXCEPT !.fn = fn, !.out = out]
    /\ UNCHANGED <<graphvars, outfp, progress, history, op, path_arg,
                   call_args, result>>

pvd_parse ==
    /\ probe.fn = "none"
    /\ Probed("PrimaryVolumeDescriptor.parse",
              VolumeDescriptorParse(probe.arg.host, probe.arg.vd))

svd_parse ==
    /\ probe.fn = "none"
    /\ Probed("SupplementaryVolumeDescriptor.parse",
              VolumeDescriptorParse(probe.arg.host, probe.arg.vd))

Parses == {"PrimaryVolumeDescriptor.parse", "SupplementaryVolumeDescriptor.parse"}

Records == {"PrimaryVolumeDescriptor.record", "SupplementaryVolumeDescriptor.record"}

\* record() of the descriptor that the parse gave
pvd_record ==
    /\ probe.fn = "PrimaryVolumeDescriptor.parse"
    /\ probe.out.res = "ok"
    /\ Probed("PrimaryVolumeDescriptor.record",
              [res |-> "ok", d |-> VolumeDescriptorRecord(probe.arg.host, probe.out.d)])

svd_record ==
    /\ probe.fn = "SupplementaryVolumeDescriptor.parse"
    /\ probe.out.res = "ok"
    /\ Probed("SupplementaryVolumeDescriptor.record",
              [res |-> "ok", d |-> VolumeDescriptorRecord(probe.arg.host, probe.out.d)])

NextEndian ==
    \/ pvd_parse
    \/ svd_parse
    \/ pvd_record
    \/ svd_record

SpecEndian == InitEndian /\ [][NextEndian]_vars

(* ---- SpecNames: check_iso9660_filename on names spelled out character
        by character ---- *)
UpperLetters ==
    <<"A", "B", "C", "D", "E", "F", "G", "H", "I", "J", "K", "L", "M", "N", "O",
      "P", "Q", "R", "S", "T", "U", "V", "W", "X", "Y", "Z">>

LowerLetters ==
    <<"a", "b", "c", "d", "e", "f", "g", "h", "i", "j", "k", "l", "m", "n", "o",
      "p", "q", "r", "s", "t", "u", "v", "w", "x", "y", "z">>

Digits == <<"0", "1", "2", "3", "4", "5", "6", "7", "8", "9">>

\* the list check_d1_characters looks a character up in
D1Characters ==
    Range(UpperLetters) \cup Range(Digits)
        \cup {"_", ".", "-", "+", "(", ")", "~", "&", "!", "@", "$"}

\* str.upper() on one character and on a name
UpperChar(c) ==
    IF \E i \in DOMAIN LowerLetters : LowerLetters[i] = c
    THEN UpperLetters[CHOOSE i \in DOMAIN LowerLetters : LowerLetters[i] = c]
    ELSE c

Upper(name) == [i \in DOMAIN name |-> UpperChar(name[i])]

\* check_d1_characters on a name given as its characters
D1CharactersOK(name) == \A i \in DOMAIN name : name[i] \in D1Characters

\* str.split(sep)
RECURSIVE Split(_, _)
Split(str, sep) ==
    IF \A i \in DOMAIN str : str[i] # sep THEN <<str>>
    ELSE LET i == CHOOSE k \in DOMAIN str :
                      str[k] = sep /\ \A j \in 1..(k - 1) : str[j] # sep
         IN  <<SubSeq(str, 1, i - 1)>> \o Split(SubSeq(str, i + 1, Len(str)), sep)

\* sep.join(parts)
RECURSIVE Join(_, _)
Join(parts, sep) ==
    IF parts = <<>> THEN <<>>
    ELSE IF Len(parts) = 1 THEN parts[1]
    ELSE parts[1] \o <<sep>> \o Join(Tail(parts), sep)

\* str.strip() of blanks
RECURSIVE Strip(_)
Strip(str) ==
    IF str # <<>> /\ Head(str) = " " THEN Strip(Tail(str))
    ELSE IF str # <<>> /\ str[Len(str)] = " " THEN Strip(SubSeq(str, 1, Len(str) - 1))
    ELSE str

DigitValue(c) == (CHOOSE i \in DOMAIN Digits : Digits[i] = c) - 1

RECURSIVE DigitsValue(_)
DigitsValue(ds) ==
    IF ds = <<>> THEN 0
    ELSE 10 * DigitsValue(SubSeq(ds, 1, Len(ds) - 1)) + DigitValue(ds[Len(ds)])

AllDigits(ds) == ds # <<>> /\ \A i \in DOMAIN ds : ds[i] \in Range(Digits)

\* int(str): blanks around the number and a sign in front of it are
\* taken, anything else than decimal digits raises ValueError
IntOf(str) ==
    LET t == Strip(str)
        signed == t # <<>> /\ Head(t) \in {"+", "-"}
        ds == IF signed THEN Tail(t) ELSE t
    IN  IF ~AllDigits(ds) THEN [res |-> "ValueError", v |-> 0]
        ELSE [res |-> "ok",
              v |-> IF signed /\ Head(t) = "-" THEN 0 - DigitsValue(ds)
                    ELSE DigitsValue(ds)]

\* the name and the extension that check_iso9660_filename takes out of
\* what stands before the ';'
NameAndExtension(name_plus_extension) ==
    LET dotsplit == Split(name_plus_extension, ".")
    IN  IF Len(dotsplit) = 1 THEN [name |-> dotsplit[1], extension |-> <<>>]
        ELSE [name |-> Join(SubSeq(dotsplit, 1, Len(dotsplit) - 1), "."),
              extension |-> dotsplit[Len(dotsplit)]]

\* the part of check_iso9660_filename that follows the version check
FilenameBody(name_plus_extension, level) ==
    LET ne == NameAndExtension(name_plus_extension)
    IN  IF Len(ne.name) = 0 /\ Len(ne.extension) = 0 THEN "PyIsoException"
        ELSE IF level = 1 /\ (Len(ne.name) > 8 \/ Len(ne.extension) > 3)
        THEN "PyIsoException"
        ELSE IF ~D1CharactersOK(Upper(ne.name)) THEN "PyIsoException"
        ELSE IF ~D1CharactersOK(Upper(ne.extension)) THEN "PyIsoException"
        ELSE "ok"

\* check_iso9660_filename(fullname, interchange_level) on a name given as
\* its characters: "ok" when it returns, else the exception it raises
FilenameCheck(fullname, level) ==
    LET namesplit == Split(fullname, ";")
    IN  IF Len(namesplit) = 2
        THEN LET version == IntOf(namesplit[2])
             IN  IF version.res # "ok" THEN "ValueError"
                 ELSE IF version.v < 1 \/ version.v > 32767 THEN "PyIsoException"
                 ELSE FilenameBody(namesplit[1], level)
        ELSE IF Len(namesplit) # 1 THEN "PyIsoException"
        ELSE FilenameBody(namesplit[1], level)

\* the names the check is applied to: a name part, an extension or none,
\* a version or none
Chars(n, c) == [i \in 1..n |-> c]

NameParts ==
    {<<>>, <<"A">>, Chars(8, "A"), Chars(9, "A"), <<"a">>, <<"A", "-", "B">>,
     <<"A", ".", "B">>, <<"A", "?">>, <<"_", "0", "Z">>}

Extensions ==
    {<<>>, <<".">>, <<".", "E">>, <<".", "E", "E", "E">>, <<".", "E", "E", "E", "E">>,
     <<".", "e">>, <<".", "$">>, <<".", "?">>}

Versions ==
    {<<>>, <<";">>, <<";", "1">>, <<";", "0">>, <<";", "3", "2", "7", "6", "7">>,
     <<";", "3", "2", "7", "6", "8">>, <<";", "x">>, <<";", "-", "1">>,
     <<";", " ", "5">>, <<";", "1", ";", "1">>}

FullNames == {n \o e \o v : n \in NameParts, e \in Extensions, v \in Versions}

InitNames ==
    /\ Constructed
    /\ probe \in {[fn |-> "none",
                    arg |-> [fullname |-> n, interchange_level |-> l],
                    out |-> NoProbe.out] : n \in FullNames, l \in {1, 3}}

filename_check ==
    /\ probe.fn = "none"
    /\ Probed("check_iso9660_filename",
              [res |-> FilenameCheck(probe.arg.fullname, probe.arg.interchange_level),
               d |-> <<>>])

NextNames == filename_check

SpecNames == InitNames /\ [][NextNames]_vars

(* ------------------------------- claims -------------------------------- *)
Mutations ==
    {"add_fp", "add_directory", "add_symlink", "rm_file", "rm_directory",
     "add_eltorito", "rm_eltorito"}

\* the object was made by new() and the last call, a mutation, returned
MutatedOk == history = "new" /\ initialized /\ result = "ok" /\ op \in Mutations

\* C1: on an object made by new(), after every successful mutation the
\* space_size of the PVD and of every SVD is the extent counter the
\* allocator ended at.
C1_SpaceSizeIsEndOfLayout ==
    MutatedOk =>
        /\ pvd.space_size = end_extent
        /\ \A i \in DOMAIN svds : svds[i].space_size = end_extent

\* the records of a file in the primary tree (p) and in the Joliet tree (j)
Twins(R, p, j) ==
    /\ R[p].att /\ R[p].vd = "pvd" /\ ~R[p].isdir
    /\ R[j].att /\ R[j].vd = "svd" /\ ~R[j].isdir
    /\ R[p].fp = R[j].fp

\* C2: on a Joliet image, after a successful mutation every file with a
\* record in both trees has the same extent and the same data length in both.
C2_TwinsAgree ==
    (MutatedOk /\ joliet_vd # 0) =>
        \A p, j \in DOMAIN recs :
            Twins(recs, p, j) =>
                /\ recs[p].ext = recs[j].ext
                /\ recs[p].data_length = recs[j].data_length

\* write() of graph G at the given date, then open() of what was written by
\* a second object: the second graph is structurally the first
RoundTrip(G, date, extends) ==
    Let(Write(G, date, extends),
        LAMBDA w :
            /\ w.written
            /\ Let(Open(Initialized0, w.img),
                   LAMBDA o : o.res = "ok" /\ Structure(Canon(o.G)) = Structure(G)))

Guarded ==
    {"write", "get_and_write", "get_entry", "list_dir", "print_tree", "add_fp",
     "add_directory", "add_symlink", "rm_file", "rm_directory", "add_eltorito",
     "rm_eltorito", "add_isohybrid", "rm_isohybrid", "close"}

\* C4: on an object that is not initialized each of the calls of Guarded
\* raises PyIsoException and leaves the object as it was, uninitialized.
C4_UninitializedRefuses ==
    [][(~initialized /\ op' \in Guarded) =>
           (result' = "PyIsoException" /\ UNCHANGED graphvars /\ ~initialized')]_vars

C4_Witness ==
    /\ ~initialized
    /\ history = "none"
    /\ op = "add_eltorito"
    /\ result = "PyIsoException"

\* new() with the arguments the library allows is accepted
NewAccepted == \A joliet, rr \in BOOLEAN : New(Cur, 1, joliet, rr).res = "ok"

\* C5: open and new are accepted only on an uninitialized object and make it
\* initialized; on an initialized object they raise PyIsoException and leave
\* the graph alone; close is accepted only on an initialized object and
\* leaves it uninitialized, where new is accepted again.
C5_Lifecycle ==
    [][/\ (op' \in {"open", "new"} /\ initialized) =>
              (result' = "PyIsoException" /\ UNCHANGED graphvars)
       /\ (op' \in {"open", "new"} /\ result' = "ok") =>
              (~initialized /\ initialized')
       /\ (op' = "close" /\ initialized) => (result' = "ok" /\ ~initialized')
       /\ ~initialized => NewAccepted
       /\ (op' = "close" /\ ~initialized) =>
              (result' = "PyIsoException" /\ UNCHANGED graphvars)]_vars

C5_Witness ==
    /\ op = "new"
    /\ result = "PyIsoException"
    /\ history = "open"
    /\ initialized

\* what the claim C6 compares of the primary hierarchy: its attached
\* records, its path table and the two space sizes
PrimaryEntries ==
    {[ident |-> recs[i].ident, parent |-> recs[i].parent, isdir |-> recs[i].isdir,
      data_length |-> recs[i].data_length]
        : i \in {k \in DOMAIN recs : recs[k].vd = "pvd" /\ recs[k].att}}

JolietEntries == {k \in DOMAIN recs : recs[k].vd = "svd" /\ recs[k].att}

PrimaryPathTable == [i \in DOMAIN pvd.ptrs |-> pvd.ptrs[i].ident]

SpaceSizes == <<pvd.space_size, [i \in DOMAIN svds |-> svds[i].space_size]>>

\* C6: on a Joliet image a failed add_fp or add_directory leaves the primary
\* tree, the primary path table and both space sizes as they were; a
\* successful one leaves a new entry in both trees.
C6_JolietAllOrNothing ==
    [][(initialized /\ joliet_vd # 0 /\ op' \in {"add_fp", "add_directory"}) =>
           IF result' = "ok"
           THEN /\ Cardinality(PrimaryEntries') = Cardinality(PrimaryEntries) + 1
                /\ Cardinality(JolietEntries') = Cardinality(JolietEntries) + 1
           ELSE /\ PrimaryEntries' = PrimaryEntries
                /\ PrimaryPathTable' = PrimaryPathTable
                /\ SpaceSizes' = SpaceSizes]_vars

\* C7: within one write() every progress call gets total = space_size*2048,
\* the first has done = 0, the done values never decrease and never exceed
\* total, and the last has done = total.
C7_ProgressEndsAtTotal ==
    (op = "write" /\ result = "ok") =>
        /\ progress.total = pvd.space_size * BlockSize
        /\ progress.done # <<>>
        /\ progress.done[1] = 0
        /\ \A k \in 1..(Len(progress.done) - 1) : progress.done[k] <= progress.done[k + 1]
        /\ \A k \in DOMAIN progress.done : progress.done[k] <= progress.total
        /\ progress.done[Len(progress.done)] = progress.total

\* C8: right after new() with interchange level 1, no Joliet and no Rock
\* Ridge: PVD at 16, one VDST at 17, version descriptor at 18, path tables
\* at 19 and 21, root directory at 23 with "." and ".." only, space_size 24.
C8_NewDefaults ==
    (op = "new" /\ result = "ok" /\ interchange_level = 1 /\ joliet_vd = 0
     /\ ~rock_ridge) =>
        /\ pvd.ext = 16
        /\ vdsts = <<17>>
        /\ version_vd = 18
        /\ pvd.path_table_location_le = 19
        /\ pvd.path_table_location_be = 21
        /\ recs[pvd.root].ext = 23
        /\ recs[pvd.root].dots = 2
        /\ Kids(recs, pvd.root) = <<>>
        /\ pvd.space_size = 24

\* the directories of the tree of vd, as (extent, identifier) pairs
DirsOf(R, vd) ==
    Let(BfsDirs(R, vd.root),
        LAMBDA dirs : [k \in DOMAIN dirs |->
                          [ext |-> R[dirs[k]].ext, ident |-> R[dirs[k]].ident]])

PtrsOf(vd) ==
    [i \in DOMAIN vd.ptrs |-> [ext |-> vd.ptrs[i].ext, ident |-> vd.ptrs[i].ident]]

\* one path table record for every directory, none for anything else
PathTableAgrees(R, vd) ==
    Let(DirsOf(R, vd),
        LAMBDA dirs :
            Let(PtrsOf(vd),
                LAMBDA ptrs :
                    /\ Len(ptrs) = Len(dirs)
                    /\ \A k \in DOMAIN dirs :
                           Cardinality({i \in DOMAIN ptrs : ptrs[i] = dirs[k]}) = 1
                    /\ \A i \in DOMAIN ptrs : \E k \in DOMAIN dirs : dirs[k] = ptrs[i]))

\* C9: after a successful add_directory or rm_directory the path table of
\* the PVD and of the Joliet SVD holds exactly one record per directory of
\* the tree, with the extent and the identifier of that directory.
C9_PathTablesAgree ==
    (history = "new" /\ initialized /\ result = "ok"
     /\ op \in {"add_directory", "rm_directory"}) =>
        /\ PathTableAgrees(recs, pvd)
        /\ joliet_vd # 0 => PathTableAgrees(recs, svds[joliet_vd])

\* the level of a record, the root being at level 1
RECURSIVE Level(_, _)
Level(R, i) == IF R[i].parent = 0 THEN 1 ELSE 1 + Level(R, R[i].parent)

DepthOK == \A i \in DOMAIN recs : recs[i].vd = "pvd" /\ recs[i].att => Level(recs, i) <= 8

\* C10: without Rock Ridge add_fp and add_directory raise PyIsoException and
\* leave the graph alone for an iso_path of more than 7 components, and the
\* primary hierarchy never has more than 8 levels.
C10_DepthLimit ==
    [][/\ (initialized /\ ~rock_ridge /\ op' \in {"add_fp", "add_directory"}
           /\ Len(path_arg') > 7) =>
              (result' = "PyIsoException" /\ UNCHANGED graphvars)
       /\ (initialized' /\ ~rock_ridge') => DepthOK']_vars

C10_Witness ==
    /\ initialized /\ ~rock_ridge
    /\ op = "add_directory" /\ Len(path_arg) > 7
    /\ result = "PyIsoException"
    /\ \E i \in DOMAIN recs : recs[i].isdir /\ Level(recs, i) = 8

\* the directories of the primary hierarchy that are not CL placeholders
RealDirs == {i \in DOMAIN recs : recs[i].vd = "pvd" /\ recs[i].att /\ recs[i].isdir
                                  /\ recs[i].rr_kind # "CL"}

\* the CL placeholders of the primary hierarchy
Placeholders == {i \in DOMAIN recs : recs[i].vd = "pvd" /\ recs[i].att
                                      /\ recs[i].rr_kind = "CL"}

\* C11: on a Rock Ridge image made by new(), after a successful
\* add_directory no real directory lies deeper than level 8, every CL
\* placeholder links to an RE-marked record that sits under /RR_MOVED, and
\* nothing is attached under a CL placeholder.
C11_RelocationKeepsDepth ==
    (history = "new" /\ initialized /\ rock_ridge /\ op = "add_directory"
     /\ result = "ok") =>
        /\ \A i \in RealDirs : Level(recs, i) <= 8
        /\ \A c \in Placeholders :
               /\ recs[c].link \in RealDirs
               /\ recs[recs[c].link].rr_kind = "RE"
               /\ recs[recs[recs[c].link].parent].ident = RrMoved
        /\ \A i \in DOMAIN recs :
               (recs[i].att /\ recs[i].parent # 0) => recs[i].parent \notin Placeholders

\* the boot records that carry the El Torito identifier
ElToritoRecords == {i \in DOMAIN brs : brs[i].elt}

\* C12: after a successful add_eltorito, and after every later successful
\* call while El Torito stays active, the El Torito boot record is at
\* extent 17.
C12_ElToritoAtExtent17 ==
    (initialized /\ eltorito.active /\ result = "ok"
     /\ op \in Mutations \cup {"add_isohybrid", "rm_isohybrid"}) =>
        \A i \in ElToritoRecords : brs[i].ext = ElToritoExtent

\* C13: an initialized object has at most one El Torito boot record, its
\* boot catalog is set exactly when there is one, and add_eltorito on an image with El Torito
\* and rm_eltorito on an image without raise PyIsoException and change
\* nothing.
C13_OneElTorito ==
    [][/\ initialized' => Cardinality(ElToritoRecords') <= 1
       /\ initialized' => (eltorito'.active <=> Cardinality(ElToritoRecords') = 1)
       /\ (initialized /\ eltorito.active /\ op' = "add_eltorito") =>
              (result' = "PyIsoException" /\ UNCHANGED graphvars)
       /\ (initialized /\ ~eltorito.active /\ op' = "rm_eltorito") =>
              (result' = "PyIsoException" /\ UNCHANGED graphvars)]_vars

\* C19: an add_eltorito that fails leaves the boot records, the boot
\* catalog, both hierarchies and the space sizes as they were.
C19_FailedAddEltoritoChangesNothing ==
    [][(initialized /\ op' = "add_eltorito" /\ result' # "ok") =>
           UNCHANGED <<brs, eltorito, recs, pvd, svds>>]_vars

\* C18: an open() that fails part-way leaves the object as a fresh one:
\* no byte source, no descriptors, no El Torito catalog, no Rock Ridge flag
\* and no isohybrid MBR.
C18_FailedOpenLeavesFresh ==
    [][(~initialized /\ op' = "open" /\ result' # "ok") =>
           /\ ~cdfp'.present
           /\ ~pvd'.present
           /\ svds' = <<>>
           /\ brs' = <<>>
           /\ vdsts' = <<>>
           /\ ~eltorito'.active
           /\ ~rock_ridge'
           /\ ~isohybrid_mbr'.present]_vars

RECURSIVE PathOf(_, _)
PathOf(R, i) ==
    IF R[i].parent = 0 THEN <<>> ELSE Append(PathOf(R, R[i].parent), R[i].ident)

\* the paths of the records attached to the primary hierarchy
PrimaryPaths ==
    {PathOf(recs, i) : i \in {k \in DOMAIN recs : recs[k].vd = "pvd" /\ recs[k].att}}

\* what find_record gives for the path of the call that follows
Target(path) == find_record(Cur, 0, path, "ascii").rec

RmDirectoryRefused(path) ==
    \/ path = RootPath
    \/ Target(path) = 0
    \/ ~recs[Target(path)].isdir
    \/ Kids(recs, Target(path)) # <<>>

RmFileRefused(path) == Target(path) = 0 \/ recs[Target(path)].isdir

\* C14: rm_directory raises the library error and changes nothing for '/',
\* for a path that is not found, for a file and for a directory that has a
\* child; rm_file likewise for a directory and for a path that is not found;
\* a removal that returns took exactly the target out of the primary
\* hierarchy and left the extents as the allocator lays them.
C14_RemoveRefusals ==
    [][/\ (initialized /\ op' = "rm_directory" /\ RmDirectoryRefused(path_arg')) =>
           (result' = "PyIsoException" /\ UNCHANGED graphvars)
       /\ (initialized /\ op' = "rm_file" /\ RmFileRefused(path_arg')) =>
           (result' = "PyIsoException" /\ UNCHANGED graphvars)
       /\ (initialized /\ op' \in {"rm_file", "rm_directory"} /\ result' = "ok") =>
           /\ path_arg' \in PrimaryPaths
           /\ PrimaryPaths' = PrimaryPaths \ {path_arg'}
       /\ (initialized /\ op \in {"rm_file", "rm_directory"} /\ result = "ok") =>
           ReshuffleExtents(Cur) = Cur]_vars

C14_Witness ==
    /\ op = "rm_directory"
    /\ path_arg = <<"A">>
    /\ result = "PyIsoException"
    /\ <<"A", "F">> \in PrimaryPaths

ArgsMismatch(args) ==
    \/ rock_ridge /\ args.rr_path = NoneArg
    \/ ~rock_ridge /\ args.rr_path # NoneArg
    \/ joliet_vd # 0 /\ args.joliet_path = NoneArg
    \/ joliet_vd = 0 /\ args.joliet_path # NoneArg

\* C15: add_fp and add_directory raise the library error, before any
\* change, when a Rock Ridge name is missing on a Rock Ridge image or given
\* on one without, and the same for the Joliet path; add_symlink does when
\* the image has no Rock Ridge or the target starts with '/'.
C15_ExtensionArgsChecked ==
    [][/\ (initialized /\ op' \in {"add_fp", "add_directory"}
                       /\ ArgsMismatch(call_args')) =>
           (result' = "PyIsoException" /\ UNCHANGED graphvars)
       /\ (initialized /\ op' = "add_symlink"
                       /\ (~rock_ridge \/ ~call_args'.relative)) =>
           (result' = "PyIsoException" /\ UNCHANGED graphvars)]_vars

C15_Witness ==
    /\ op = "add_fp"
    /\ initialized
    /\ rock_ridge
    /\ joliet_vd # 0
    /\ call_args.rr_path # NoneArg
    /\ call_args.joliet_path = NoneArg
    /\ result = "PyIsoException"

\* the two halves of a both-endian field hold one value
Agree(field) == LittleEndian(field.le) = BigEndian(field.be)

\* C16: parsing a primary or supplementary volume descriptor raises the
\* library error whenever the two halves of the space size, set size,
\* sequence number, logical block size or path table size hold different
\* values, and record() emits two halves that hold the same value.
C16_BothEndian ==
    /\ (probe.fn \in Parses
            /\ \E i \in DOMAIN BothEndianFields :
                   ~Agree(probe.arg.vd[BothEndianFields[i]])) =>
           probe.out.res = "PyIsoException"
    /\ probe.fn \in Records =>
           \A i \in DOMAIN BothEndianFields : Agree(probe.out.d[BothEndianFields[i]])

C16_Witness ==
    /\ probe.fn = "SupplementaryVolumeDescriptor.parse"
    /\ probe.arg.vd.header
    /\ probe.arg.vd.tail
    /\ Agree(probe.arg.vd.space_size)
    /\ Agree(probe.arg.vd.set_size)
    /\ Agree(probe.arg.vd.seqnum)
    /\ ~Agree(probe.arg.vd.log_block_size)
    /\ Agree(probe.arg.vd.path_tbl_size)
    /\ probe.out.res = "PyIsoException"

\* the characters the claim C17 calls d-characters
DCharacters == Range(UpperLetters) \cup Range(Digits) \cup {"_"}

\* the names the claim C17 says the check takes at interchange level 1
Level1Name(fullname) ==
    LET namesplit == Split(fullname, ";")
        ne == NameAndExtension(namesplit[1])
    IN  /\ Len(namesplit) <= 2
        /\ Len(namesplit) = 2 =>
               /\ AllDigits(namesplit[2])
               /\ DigitsValue(namesplit[2]) \in 1..32767
        /\ Len(ne.name) <= 8
        /\ Len(ne.extension) <= 3
        /\ Len(ne.name) + Len(ne.extension) > 0
        /\ \A i \in DOMAIN ne.name : ne.name[i] \in DCharacters
        /\ \A i \in DOMAIN ne.extension : ne.extension[i] \in DCharacters

\* C17: at interchange level 1 check_iso9660_filename returns for exactly
\* the names with at most one ';', a version (if any) that is an integer in
\* 1..32767, a name part of at most 8 and an extension of at most 3
\* characters that are not both empty, and no character other than A-Z,
\* 0-9 and '_'; on every other name it raises the library error.
C17_Level1Names ==
    (probe.fn = "check_iso9660_filename" /\ probe.arg.interchange_level = 1) =>
        probe.out.res = IF Level1Name(probe.arg.fullname) THEN "ok"
                        ELSE "PyIsoException"

\* what stands on the image in the order of the claim C20, each with the
\* extent it was given and the number of extents it fills
Item(ext, n) == [ext |-> ext, n |-> n]

RecordItems(seq) ==
    [k \in DOMAIN seq |-> Item(recs[seq[k]].ext, Blocks(recs[seq[k]].data_length))]

PathTableItems(vd) ==
    <<Item(vd.path_table_location_le, vd.path_table_num_extents),
      Item(vd.path_table_location_be, vd.path_table_num_extents)>>

BootFiles == {eltorito.dirrecord, eltorito.initial_entry_dirrecord}

PlainFiles ==
    SelectSeq(BfsFiles(recs, pvd.root),
              LAMBDA i : ~(eltorito.active /\ i \in BootFiles))

LayoutItems ==
    <<Item(pvd.ext, 1)>>
    \o [i \in DOMAIN brs |-> Item(brs[i].ext, 1)]
    \o [i \in DOMAIN svds |-> Item(svds[i].ext, 1)]
    \o [i \in DOMAIN vdsts |-> Item(vdsts[i], 1)]
    \o <<Item(version_vd, 1)>>
    \o PathTableItems(pvd)
    \o Flatten([i \in DOMAIN svds |-> PathTableItems(svds[i])])
    \o RecordItems(BfsDirs(recs, pvd.root))
    \o Flatten([i \in DOMAIN svds |-> RecordItems(BfsDirs(recs, svds[i].root))])
    \o (IF rock_ridge THEN <<Item(er_extent, 1)>> ELSE <<>>)
    \o (IF eltorito.active
        THEN RecordItems(<<eltorito.dirrecord, eltorito.initial_entry_dirrecord>>)
        ELSE <<>>)
    \o RecordItems(PlainFiles)

\* the number of extents that the items before the k-th fill
RECURSIVE ExtentsBefore(_, _)
ExtentsBefore(items, k) ==
    IF k = 1 THEN 0 ELSE ExtentsBefore(items, k - 1) + items[k - 1].n

Reshuffled ==
    /\ initialized
    /\ result = "ok"
    /\ op \in Mutations \cup {"new"}

\* C20: after a reshuffle the descriptors, path tables, directories, the
\* Rock Ridge ER extent, the El Torito catalog and boot file and the other
\* files stand one after the other from extent 16 in this order, each one
\* beginning where the one before it ends.
C20_Layout ==
    Reshuffled =>
        \A k \in DOMAIN LayoutItems :
            LayoutItems[k].ext = PvdExtent + ExtentsBefore(LayoutItems, k)

\* C30: while El Torito is active, the record of the catalog file and the
\* record of the boot file that the boot catalog refers to are children of
\* a directory of the primary tree.
C30_CatalogRefersToTree ==
    (initialized /\ eltorito.active) =>
        \A r \in {eltorito.dirrecord, eltorito.initial_entry_dirrecord} :
            /\ r \in DOMAIN recs
            /\ recs[r].vd = "pvd"
            /\ recs[r].att

\* the payloads that the attached file records of one hierarchy refer to
FilePayloads(vd) ==
    {recs[i].fp : i \in {k \in DOMAIN recs :
                            recs[k].vd = vd /\ recs[k].att /\ ~recs[k].isdir}}

\* C24: on a Joliet image, after a successful rm_file the files of the
\* primary tree and the files of the Joliet tree are the same payloads: the
\* removed file has left both trees.
C24_RmFileLeavesBothTrees ==
    (initialized /\ joliet_vd # 0 /\ op = "rm_file" /\ result = "ok") =>
        FilePayloads("pvd") = FilePayloads("svd")

\* the paths of the records attached to the Joliet hierarchy
JolietPaths ==
    {PathOf(recs, i) : i \in {k \in DOMAIN recs : recs[k].vd = "svd" /\ recs[k].att}}

\* the identifiers of the directories in the Joliet path table
JolietPathTable ==
    IF joliet_vd = 0 THEN {}
    ELSE {svds[joliet_vd].ptrs[i].ident : i \in DOMAIN svds[joliet_vd].ptrs}

\* a Joliet path as the identifiers of the records it names
JolietIdents(path) == [k \in DOMAIN path |-> Encode(path[k], "utf-16_be")]

\* C23: on a Joliet image a successful rm_directory takes out of the Joliet
\* tree exactly the record that joliet_path names, and its path table
\* record, and no other Joliet record.
C23_RmDirectoryJolietTarget ==
    [][(initialized /\ joliet_vd # 0 /\ op' = "rm_directory" /\ result' = "ok") =>
           /\ JolietIdents(call_args'.joliet_path) \in JolietPaths
           /\ JolietPaths' = JolietPaths \ {JolietIdents(call_args'.joliet_path)}
           /\ JolietPathTable' =
                  JolietPathTable \ {Last(JolietIdents(call_args'.joliet_path))}]_vars

\* C29: an initialized object that holds an isohybrid MBR has an active El
\* Torito boot catalog whose initial entry has a sector count of 4; an
\* add_isohybrid that fails changes nothing.
C29_MbrNeedsElTorito ==
    [][/\ (initialized' /\ isohybrid_mbr'.present) =>
              (eltorito'.active /\ eltorito'.sector_count = IsohybridSectorCount)
       /\ (op' = "add_isohybrid" /\ result' # "ok") => UNCHANGED graphvars]_vars

\* the isohybrid MBR of the image that write() produced
WrittenMbr == Read(outfp, 0)

\* C27: write() of an isohybrid image emits an MBR whose partition start is
\* 4 times the load RBA that the boot file has at the time of the write.
C27_MbrFollowsBootFile ==
    (initialized /\ op = "write" /\ result = "ok" /\ outfp.present
        /\ isohybrid_mbr.present /\ eltorito.active) =>
        /\ WrittenMbr.k = "mbr"
        /\ 4 * WrittenMbr.rba = 4 * eltorito.load_rba

\* the extents that an item fills
ExtentRange(item) == item.ext .. (item.ext + item.n - 1)

\* C28: after a reshuffle the extent ranges of the descriptors, the version
\* descriptor, the path tables, the directories, the ER extent, the boot
\* catalog, the boot file and every non-empty file of the primary tree are
\* pairwise disjoint, whatever the sizes of the files.
C28_DisjointExtents ==
    Reshuffled =>
        \A k, l \in DOMAIN LayoutItems :
            k # l => ExtentRange(LayoutItems[k]) \cap ExtentRange(LayoutItems[l]) = {}

(* ---- SpecHost: the images of SpecLayout, built on a host of either byte
        order ---- *)
InitHost ==
    /\ Constructed
    /\ probe \in {[fn |-> "none", arg |-> [host |-> h], out |-> NoProbe.out]
                      : h \in Hosts}

SpecHost == InitHost /\ [][NextLayout]_vars

\* the first four bytes of the boot system use field of the El Torito boot
\* record, as PyIso._reshuffle_extents packs them with '=L'
BootSystemUse == Pack(probe.arg.host, brs[eltorito.br].boot_system_use, 4)

\* C22: while El Torito is active, after a reshuffle the first four bytes of
\* the boot system use field of the El Torito boot record are the extent of
\* the catalog's directory record, least significant byte first, and the
\* load RBA of the initial entry is the extent of the boot file's record.
C22_CatalogFollowsFiles ==
    (Reshuffled /\ eltorito.active) =>
        /\ BootSystemUse = LittleEndianBytes(recs[eltorito.dirrecord].ext, 4)
        /\ eltorito.load_rba = recs[eltorito.initial_entry_dirrecord].ext

\* the same on a little-endian host only
CatalogFollowsFilesLittle ==
    (Reshuffled /\ eltorito.active /\ probe.arg.host = "little") =>
        /\ BootSystemUse = LittleEndianBytes(recs[eltorito.dirrecord].ext, 4)
        /\ eltorito.load_rba = recs[eltorito.initial_entry_dirrecord].ext

(* ---- SpecMoved: one chain of seven directories and two directories of
        eight components below it, which Rock Ridge relocates ---- *)
MaxMovedRecs == 14

MovedPaths == {Chain(7) \o <<"J">>, Chain(7) \o <<"K">>}

moved_new == NewStep({1}, {FALSE}, BOOLEAN)

moved_add_directory ==
    AddDirectoryStep({Chain(n) : n \in 1..7} \cup MovedPaths, {RrArg}, {NoneArg},
                     MaxMovedRecs)

moved_rm_directory == RmDirectoryStep(MovedPaths, {NoneArg}, MaxMovedRecs)

NextMoved ==
    \/ moved_new
    \/ moved_add_directory
    \/ moved_rm_directory

SpecMoved == Init /\ [][NextMoved]_vars

\* the directories called RR_MOVED in the root of the primary hierarchy
RrMovedDirs ==
    {i \in DOMAIN recs : /\ recs[i].vd = "pvd" /\ recs[i].att /\ recs[i].isdir
                         /\ recs[i].parent = pvd.root /\ recs[i].ident = RrMoved}

\* c is the placeholder and r the real record of the relocated directory
\* at path: c is at path and carries CL, r is under /RR_MOVED and carries
\* RE, c links to r and r to the parent of c, and both link fields hold
\* the extents of the records they link to
RelocatedPair(c, r, path) ==
    /\ recs[c].att /\ recs[c].isdir /\ recs[c].rr_kind = "CL"
    /\ PathOf(recs, c) = path
    /\ recs[r].att /\ recs[r].isdir /\ recs[r].rr_kind = "RE"
    /\ PathOf(recs, r) = <<RrMoved, Last(path)>>
    /\ recs[c].link = r
    /\ recs[r].link = recs[c].parent
    /\ recs[c].link_ext = recs[r].ext
    /\ recs[r].link_ext = recs[recs[c].parent].ext

\* C21: on a Rock Ridge image, after a successful add_directory of a path
\* whose number of components is a multiple of 8 the root holds exactly one
\* RR_MOVED directory, a CL placeholder is at the path and the real record,
\* marked RE, is under /RR_MOVED; the placeholder links to the real record
\* and the real record to the original parent, and the link fields hold the
\* extents these records have after the reshuffle.
C21_Relocation ==
    (initialized /\ rock_ridge /\ op = "add_directory" /\ result = "ok"
     /\ Len(path_arg) % 8 = 0) =>
        /\ Cardinality(RrMovedDirs) = 1
        /\ \E c, r \in DOMAIN recs : RelocatedPair(c, r, path_arg)

\* a second directory has been relocated into the /RR_MOVED of the first
C21_Witness ==
    /\ initialized /\ rock_ridge /\ op = "add_directory" /\ result = "ok"
    /\ Len(path_arg) % 8 = 0
    /\ Cardinality({i \in DOMAIN recs : recs[i].att /\ recs[i].rr_kind = "RE"}) = 2
    /\ \E c, r \in DOMAIN recs : RelocatedPair(c, r, path_arg)

(* ---- SpecTables: images whose big-endian path table was changed after
        the write, read back by open() ---- *)
MaxTableRecs == 6

\* the extents of the volume descriptors of kind vd on an image that have
\* a big-endian path table there
DescriptorExtents(img, vd) ==
    {e \in DOMAIN img.blocks :
        /\ img.blocks[e].k = vd
        /\ img.blocks[e].path_table_location_be \in DOMAIN img.blocks
        /\ img.blocks[img.blocks[e].path_table_location_be].k = "ptbe"}

\* another identifier of the same length
OtherIdent(ident) ==
    IF ident \in {"0a", "0b"} THEN (IF ident = "0a" THEN "0b" ELSE "0a")
    ELSE IF ident = "A" THEN "B" ELSE "A"

\* a path table record with one field changed
ChangedRow(row, field) ==
    IF field = "extent" THEN [row EXCEPT !.ext = @ + 1]
    ELSE IF field = "parent" THEN [row EXCEPT !.parent_num = @ + 1]
    ELSE [row EXCEPT !.ident = OtherIdent(@)]

\* the image with the given field of the last record of the big-endian path
\* table of the descriptor at extent e changed
Changed(img, e, field) ==
    Let(img.blocks[e].path_table_location_be,
        LAMBDA be :
            [img EXCEPT !.blocks[be].ptrs[Len(img.blocks[be].ptrs)] =
                            ChangedRow(@, field)])

ChangedFields == {"extent", "parent", "ident"}

tables_new == NewStep({1}, BOOLEAN, {FALSE})

tables_add_directory ==
    \E d \in {[iso |-> <<"A">>, joliet |-> "a"], [iso |-> <<"B">>, joliet |-> "b"]} :
        AddDirectoryStep({d.iso}, {NoneArg}, {JolietArg(d.joliet)}, MaxTableRecs)

tables_write == write

tables_close == close

\* open() on the file of the last write()
tables_open ==
    /\ outfp.present
    /\ Let(Open(Cur, outfp),
           LAMBDA o :
               OpenLandedWith(o.res, Canon(o.G),
                              [fn |-> "open", arg |-> [vd |-> "none", field |-> "none"],
                               out |-> NoProbe.out]))

\* open() on that file with one big-endian path table record changed
tables_open_changed ==
    /\ outfp.present
    /\ \E vd \in {"pvd", "svd"}, field \in ChangedFields :
           \E e \in DescriptorExtents(outfp, vd) :
               Let(Open(Cur, Changed(outfp, e, field)),
                   LAMBDA o :
                       OpenLandedWith(o.res, Canon(o.G),
                                      [fn |-> "open",
                                       arg |-> [vd |-> vd, field |-> field],
                                       out |-> NoProbe.out]))

NextTables ==
    \/ tables_new
    \/ tables_add_directory
    \/ tables_write
    \/ tables_close
    \/ tables_open
    \/ tables_open_changed

SpecTables == Init /\ [][NextTables]_vars

\* C25: open() of an image on which the big-endian path table of the PVD
\* or of the Joliet SVD differs from the little-endian one in a field of a
\* record fails with the library error.
C25_PathTablesCompared ==
    (op = "open" /\ probe.fn = "open" /\ probe.arg.vd \in {"pvd", "svd"}) =>
        result = "PyIsoException"

\* the same for the path tables of the PVD alone
PrimaryPathTablesCompared ==
    (op = "open" /\ probe.fn = "open" /\ probe.arg.vd = "pvd") =>
        result = "PyIsoException"

(* ---- SpecCont: the walk of PyIso._reassign_vd_dirrecord_extents over
        children that carry Rock Ridge continuation entries ---- *)
MaxChildren == 4

\* the lengths of the continuation entries of the children; 0 stands for a
\* child without one
ContLengths == {0, 1, BlockSize \div 2, BlockSize \div 2 + 1, BlockSize}

\* the children the walk meets, in its order: files and directories (none
\* of them "." or "..")
WalkChildren ==
    UNION {[1..n -> [isdir : BOOLEAN, length : ContLengths]] : n \in 1..MaxChildren}

\* the extent the walk starts from, after the root directory
WalkStart == 24

\* a child without a continuation entry
NoContinuation == [ext |-> 0, off |-> 0]

\* a walk that takes a fresh continuation extent also for an entry that
\* just fills the rest of the current one
ContinuationStepEager(s, child) ==
    IF child.length = 0 THEN [s EXCEPT !.placed = Append(@, NoContinuation)]
    ELSE IF s.rr_cont_extent = 0 \/ BlockSize - s.rr_cont_offset <= child.length
    THEN [s EXCEPT !.placed = Append(@, [ext |-> s.cur, off |-> 0]),
                   !.rr_cont_extent = s.cur,
                   !.rr_cont_offset = child.length,
                   !.cur = @ + 1]
    ELSE [s EXCEPT !.placed = Append(@, [ext |-> s.rr_cont_extent,
                                         off |-> s.rr_cont_offset]),
                   !.rr_cont_offset = @ + child.length]

\* where the continuation entry of a child goes: into a fresh extent when
\* there is none yet (rr_cont_extent 0) or the entry does not fit into the
\* rest of the current one, behind the entry before it otherwise
ContinuationStep(s, child) ==
    IF child.length = 0 THEN [s EXCEPT !.placed = Append(@, NoContinuation)]
    ELSE IF s.rr_cont_extent = 0 \/ BlockSize - s.rr_cont_offset < child.length
    THEN [s EXCEPT !.placed = Append(@, [ext |-> s.cur, off |-> 0]),
                   !.rr_cont_extent = s.cur,
                   !.rr_cont_offset = child.length,
                   !.cur = @ + 1]
    ELSE [s EXCEPT !.placed = Append(@, [ext |-> s.rr_cont_extent,
                                         off |-> s.rr_cont_offset]),
                   !.rr_cont_offset = @ + child.length]

\* the state of the walk after one child: a directory takes the current
\* extent, then the continuation entry of the child is placed
WalkChild(s, child) ==
    ContinuationStep(
        [s EXCEPT !.cur = IF child.isdir THEN @ + Blocks(BlockSize) ELSE @,
                  !.dirs = Append(@, IF child.isdir THEN s.cur ELSE 0)],
        child)

\* the loop of the walk over the children from the k-th on
RECURSIVE WalkChildrenFrom(_, _, _)
WalkChildrenFrom(s, children, k) ==
    IF k > Len(children) THEN s
    ELSE WalkChildrenFrom(WalkChild(s, children[k]), children, k + 1)

\* the extents of the directories and the places of the continuation
\* entries after the walk
ReassignContinuations(children, cur) ==
    WalkChildrenFrom([cur |-> cur, rr_cont_extent |-> 0, rr_cont_offset |-> 0,
                      dirs |-> <<>>, placed |-> <<>>],
                     children, 1)

InitCont ==
    /\ Constructed
    /\ probe \in {[fn |-> "none", arg |-> [children |-> c], out |-> NoProbe.out]
                      : c \in WalkChildren}

reassign_vd_dirrecord_extents ==
    /\ probe.fn = "none"
    /\ Probed("_reassign_vd_dirrecord_extents",
              [res |-> "ok", d |-> ReassignContinuations(probe.arg.children, WalkStart)])

NextCont == reassign_vd_dirrecord_extents

SpecCont == InitCont /\ [][NextCont]_vars

\* the children of the probed walk that carry a continuation entry
ContEntries == {k \in DOMAIN probe.arg.children : probe.arg.children[k].length > 0}

ContLen(k) == probe.arg.children[k].length

ContAt(k) == probe.out.d.placed[k]

\* the entries before the k-th that share its extent
SharersBefore(k) == {j \in ContEntries : j < k /\ ContAt(j).ext = ContAt(k).ext}

RECURSIVE SumLen(_)
SumLen(S) ==
    IF S = {} THEN 0
    ELSE LET j == CHOOSE x \in S : TRUE IN ContLen(j) + SumLen(S \ {j})

\* the entry before the k-th in the order of the walk, 0 when k is the first
EntryBefore(k) ==
    IF \E j \in ContEntries : j < k
    THEN CHOOSE j \in ContEntries : j < k /\ \A i \in ContEntries : i < k => i <= j
    ELSE 0

\* C26: after the walk every continuation entry of at most one block lies
\* within one block, the entries that share an extent stand back to back in
\* the order of the walk from offset 0, and an entry takes a fresh extent
\* only when it is the first or does not fit behind the entry before it.
C26_ContinuationPacking ==
    probe.fn = "_reassign_vd_dirrecord_extents" =>
        \A k \in ContEntries :
            /\ ContAt(k).off + ContLen(k) <= BlockSize
            /\ ContAt(k).off = SumLen(SharersBefore(k))
            /\ ContAt(k).ext \notin {probe.out.d.dirs[j] : j \in DOMAIN probe.out.d.dirs}
            /\ EntryBefore(k) # 0 =>
                   LET p == EntryBefore(k)
                   IN  IF ContAt(p).off + ContLen(p) + ContLen(k) <= BlockSize
                       THEN ContAt(k).ext = ContAt(p).ext
                       ELSE ContAt(k).ext > ContAt(p).ext /\ SharersBefore(k) = {}

\* two entries fill one extent to the last byte and a third one has taken a
\* fresh extent, with a directory between them
C26_Witness ==
    /\ probe.fn = "_reassign_vd_dirrecord_extents"
    /\ \E a, b, c \in ContEntries :
           /\ a < b /\ b < c
           /\ ContAt(a).ext = ContAt(b).ext
           /\ ContAt(b).off + ContLen(b) = BlockSize
           /\ ContAt(c).ext # ContAt(b).ext
           /\ \E d \in DOMAIN probe.arg.children :
                  a < d /\ d <= b /\ probe.arg.children[d].isdir

====
